---- MODULE Spec2Model ----
(***************************************************************************)
(* State-machine model of the stormbird aerodynamic engine: the sail       *)
(* controller (controller/), the line force model's data update            *)
(* (line_force_model/data_update.rs), the actuator line                    *)
(* (actuator_line/) and the lifting-line FMU (interfaces/fmus/).           *)
(*                                                                         *)
(* Float values are modelled by integers: every value the model draws is   *)
(* an integer-valued float, on which +, - and * are exact.  Angles are     *)
(* counted in eighths of a turn, so that PI and TAU are the integers 4     *)
(* and 8.  Option<T> is a record with the field is_some.                   *)
(***************************************************************************)
EXTENDS Integers, Sequences, FiniteSets, TLC

VARIABLES
    line_force_model, \* LineForceModel: wings, pose, wing angles and the global data derived from them
    controller,     \* Option<Controller>: set_points, time_steps_between_updates, start_time, time_step_index
    ctrl_phase,     \* "inactive": no update call with time >= start_time yet; "first": the last call
                    \* was the first such call; "active": it was a later one
    ctrl_call,      \* arguments and return value of the last Controller::update call
    actuator_line,  \* ActuatorLine: the fields besides line_force_model and controller
    al_trace,       \* the calls made on the actuator line: the time, the last do_step, the
                    \* return values of update_controller, whether a call has panicked
    fmu,            \* StormbirdLiftingLine: parameters, inputs, outputs, iterations_completed
    fmu_trace       \* the last do_step of the FMU

ctrlVars == <<controller, ctrl_phase, ctrl_call>>

alVars == <<actuator_line, al_trace>>

fmuVars == <<fmu, fmu_trace>>

vars == <<line_force_model, controller, ctrl_phase, ctrl_call, actuator_line, al_trace,
          fmu, fmu_trace>>

----------------------------------------------------------------------------
(* Option<T> *)

None == [is_some |-> FALSE]

Some(v) == [is_some |-> TRUE, value |-> v]

\* Float::max
Max(a, b) == IF a >= b THEN a ELSE b

\* a let binding of the source: Body at the value, which is computed once
Bind(value, Body(_)) == CHOOSE result \in {Body(bound) : bound \in {value}} : TRUE

(* Float helpers: f64::abs and f64::signum on the values of the model *)

Abs(x) == IF x < 0 THEN -x ELSE x

Signum(x) == IF x < 0 THEN -1 ELSE 1

PI == 4

TAU == 2 * PI

----------------------------------------------------------------------------
(* controller/set_points.rs *)

\* stormath::interpolation::linear_interpolation: piecewise linear in the
\* breakpoints x_data (increasing), the boundary value outside of them.
linear_interpolation(x, x_data, y_data) ==
    LET n == Len(x_data) IN
    IF x <= x_data[1] THEN y_data[1]
    ELSE IF x >= x_data[n] THEN y_data[n]
    ELSE LET k == CHOOSE k \in 1..(n - 1) : x_data[k] <= x /\ x < x_data[k + 1]
         IN  y_data[k] + ((y_data[k + 1] - y_data[k]) * (x - x_data[k])) \div (x_data[k + 1] - x_data[k])

\* the raw rotation rate of get_rps_from_spin_ratio, without the cut to max_rps
get_rps_from_spin_ratio_raw(conversion, spin_ratio, velocity) ==
    Signum(spin_ratio * velocity) *
        (Abs(spin_ratio * velocity) \div conversion.circumference)

\* SpinRatioConversion::get_rps_from_spin_ratio; the conversion record holds
\* the circumference PI * diameter in the model's length unit.
get_rps_from_spin_ratio(conversion, spin_ratio, velocity) ==
    LET product == spin_ratio * velocity
        rps_raw == Signum(product) * (Abs(product) \div conversion.circumference)
    IN  IF Abs(rps_raw) > conversion.max_rps
        THEN conversion.max_rps * Signum(rps_raw)
        ELSE rps_raw

\* limit_value, as written: the limited branch multiplies the old value.
limit_value(old_value, raw_new_value, max_change) ==
    LET raw_difference == raw_new_value - old_value IN
    IF Abs(raw_difference) > max_change
    THEN old_value * max_change * Signum(raw_difference)
    ELSE raw_new_value

RECURSIVE WrapDown(_)
WrapDown(angle) == IF angle > PI THEN WrapDown(angle - TAU) ELSE angle

RECURSIVE WrapUp(_)
WrapUp(angle) == IF angle < -PI THEN WrapUp(angle + TAU) ELSE angle

correct_angle_to_be_between_pi_and_negative_pi(angle) == WrapUp(WrapDown(angle))

get_angle_of_attack_set_point(sp, apparent_wind_direction) ==
    IF sp.angle_of_attack_data.is_some
    THEN linear_interpolation(apparent_wind_direction,
                              sp.apparent_wind_directions_data,
                              sp.angle_of_attack_data.value)
    ELSE 0

get_internal_state_set_point(sp, apparent_wind_direction) ==
    IF sp.section_model_internal_state_data.is_some
    THEN linear_interpolation(apparent_wind_direction,
                              sp.apparent_wind_directions_data,
                              sp.section_model_internal_state_data.value)
    ELSE 0

\* a geometric wing angle that takes the set point at full loading
get_local_wing_angle_geometric_full_loading(sp, input) ==
    IF sp.angle_of_attack_data.is_some
    THEN input.apparent_wind_direction -
             get_angle_of_attack_set_point(sp, input.apparent_wind_direction)
    ELSE 0

get_local_wing_angle_geometric(sp, input) ==
    IF sp.angle_of_attack_data.is_some
    THEN LET set_point == input.loading *
                 get_angle_of_attack_set_point(sp, input.apparent_wind_direction)
         IN  input.apparent_wind_direction - set_point
    ELSE 0

\* angle_error of get_local_wing_angle_effective, after its correction
angle_error_effective(sp, input) ==
    correct_angle_to_be_between_pi_and_negative_pi(
        input.angle_of_attack -
            input.loading * get_angle_of_attack_set_point(sp, input.apparent_wind_direction))

get_local_wing_angle_effective(sp, input) ==
    LET angle_measurement == input.angle_of_attack IN
    IF sp.angle_of_attack_data.is_some
    THEN LET set_point == input.loading *
                 get_angle_of_attack_set_point(sp, input.apparent_wind_direction)
             angle_error == correct_angle_to_be_between_pi_and_negative_pi(
                                angle_measurement - set_point)
         IN  correct_angle_to_be_between_pi_and_negative_pi(angle_measurement + angle_error)
    ELSE 0

get_section_model_internal_state(sp, input) ==
    IF sp.section_model_internal_state_data.is_some
    THEN LET internal_state_raw == input.loading *
                 get_internal_state_set_point(sp, input.apparent_wind_direction)
         IN  IF sp.internal_state_type.kind = "Generic"
             THEN internal_state_raw
             ELSE get_rps_from_spin_ratio(sp.internal_state_type, internal_state_raw,
                                          input.velocity)
    ELSE 0

get_new_output(sp, input, time_step) ==
    LET raw_angle == IF sp.use_effective_angle_of_attack
                     THEN get_local_wing_angle_effective(sp, input)
                     ELSE get_local_wing_angle_geometric(sp, input)
        local_wing_angle ==
            IF sp.max_local_wing_angle_change_rate.is_some
            THEN limit_value(input.current_local_wing_angle, raw_angle,
                             sp.max_local_wing_angle_change_rate.value * time_step)
            ELSE raw_angle
        raw_state == get_section_model_internal_state(sp, input)
        section_model_internal_state ==
            IF sp.max_internal_section_state_change_rate.is_some
            THEN limit_value(input.current_section_model_internal_state, raw_state,
                             sp.max_internal_section_state_change_rate.value * time_step)
            ELSE raw_state
    IN  [local_wing_angle |-> local_wing_angle,
         section_model_internal_state |-> section_model_internal_state]

----------------------------------------------------------------------------
(* controller/mod.rs, controller/builder.rs *)

\* Controller::update with every wing reading the first wing's input
update_first_input(c, time, time_step, input) ==
    LET initialization_done == time >= c.start_time
        time_to_update == c.time_step_index % c.time_steps_between_updates = 0
        first_time_step == c.time_step_index = 1
    IN  IF first_time_step \/ (time_to_update /\ initialization_done)
        THEN Some([i \in 1..Len(c.set_points) |->
                      get_new_output(c.set_points[i], input[1], time_step)])
        ELSE None

\* Controller::update (&self: the controller itself is left as it is)
update(c, time, time_step, input) ==
    LET initialization_done == time >= c.start_time
        time_to_update == c.time_step_index % c.time_steps_between_updates = 0
        first_time_step == c.time_step_index = 1
    IN  IF first_time_step \/ (time_to_update /\ initialization_done)
        THEN Some([i \in 1..Len(c.set_points) |->
                      get_new_output(c.set_points[i], input[i], time_step)])
        ELSE None

\* ControllerBuilder::build
build(builder) ==
    [set_points |-> builder.set_points,
     time_steps_between_updates |-> builder.time_steps_between_updates,
     start_time |-> builder.start_time,
     time_step_index |-> 0]

----------------------------------------------------------------------------
(* line_force_model/data_update.rs                                         *)
(*                                                                         *)
(* A LineForceModel is a record m.  Wing ranges keep the 0-based half-open *)
(* bounds of the source; line i of the source is element i + 1 of the      *)
(* model's sequences.  A rotated or transformed vector is represented by   *)
(* the vector together with the angle, axis and pose it was transformed    *)
(* with: two such values are equal exactly when they were computed from    *)
(* the same data.                                                          *)

ZeroVector == <<0, 0, 0>>

VecSub(a, b) == <<a[1] - b[1], a[2] - b[2], a[3] - b[3]>>

VecDiv(a, d) == <<a[1] \div d, a[2] \div d, a[3] \div d>>

VecAdd(a, b) == <<a[1] + b[1], a[2] + b[2], a[3] + b[3]>>

VecScale(a, k) == <<a[1] * k, a[2] * k, a[3] * k>>

Dot(a, b) == a[1] * b[1] + a[2] * b[2] + a[3] * b[3]

Cross(a, b) ==
    <<a[2] * b[3] - a[3] * b[2], a[3] * b[1] - a[1] * b[3], a[1] * b[2] - a[2] * b[1]>>

\* the largest r in lo..hi with r * r <= n
RECURSIVE IsqrtBetween(_, _, _)
IsqrtBetween(n, lo, hi) ==
    IF lo = hi THEN lo
    ELSE LET mid == (lo + hi + 1) \div 2
         IN  IF mid * mid <= n THEN IsqrtBetween(n, mid, hi)
             ELSE IsqrtBetween(n, lo, mid - 1)

\* Float::sqrt on the integers: the root rounded down (the values of the
\* model stay below 2^30, whose root is 2^15)
Isqrt(n) == IsqrtBetween(n, 0, IF n < 2 ^ 15 THEN n ELSE 2 ^ 15)

\* SpatialVector::length
Length(a) == Isqrt(Dot(a, a))

\* SpatialVector::rotate_around_axis
rotate_around_axis(v, angle, axis) == [vector |-> v, angle |-> angle, axis |-> axis]

\* RigidBodyMotion::transform_vector: rotation only
transform_vector(rbm, v) == [vector |-> v, rotation |-> rbm.rotation]

\* RigidBodyMotion::transform_point: rotation, then translation
transform_point(rbm, point) ==
    [point |-> point, rotation |-> rbm.rotation, translation |-> rbm.translation]

\* SpanLine::ctrl_point: the point midway between the line's end points
ctrl_point(line) == [midway |-> <<line.start_point, line.end_point>>]

nr_wings(m) == Len(m.wing_indices)

nr_span_lines(m) == Len(m.span_lines_local)

\* the lines of a wing, as indices of the model's sequences
WingLines(m, wing_index) ==
    (m.wing_indices[wing_index].start + 1)..(m.wing_indices[wing_index].end)

\* LineForceModel::wing_index_from_global
wing_index_from_global(m, i) ==
    CHOOSE wing_index \in 1..nr_wings(m) : i \in WingLines(m, wing_index)

\* LineForceModel::wing_rotation_data_from_global_index: the wing's local
\* angle and its span axis (the direction of the wing's first local line)
wing_rotation_data_from_global_index(m, i) ==
    LET wing_index == wing_index_from_global(m, i)
        first_line == m.span_lines_local[m.wing_indices[wing_index].start + 1]
    IN  [angle |-> m.local_wing_angles[wing_index],
         axis |-> VecSub(first_line.end_point, first_line.start_point)]

\* the per-wing sequences per_wing[wing_index..n], one after the other
RECURSIVE ConcatWings(_, _, _)
ConcatWings(per_wing, wing_index, n) ==
    IF wing_index > n THEN <<>>
    ELSE per_wing[wing_index] \o ConcatWings(per_wing, wing_index + 1, n)

\* LineForceModel::span_point_values_from_ctrl_point_values: per wing, one
\* value per span point, each from the control point values next to it
span_point_values_from_ctrl_point_values(m, values) ==
    LET OfWing == [wing_index \in 1..nr_wings(m) |->
            LET first == m.wing_indices[wing_index].start + 1
                last == m.wing_indices[wing_index].end
            IN  [k \in 1..(last - first + 2) |->
                    IF k = 1 THEN <<values[first]>>
                    ELSE IF k = last - first + 2 THEN <<values[last]>>
                    ELSE <<values[first + k - 2], values[first + k - 1]>>]]
    IN  ConcatWings(OfWing, 1, nr_wings(m))

update_chord_vectors(m) ==
    LET local == [i \in 1..Len(m.chord_vectors_local_not_rotated) |->
                     LET data == wing_rotation_data_from_global_index(m, i)
                     IN  rotate_around_axis(m.chord_vectors_local_not_rotated[i],
                                            data.angle, data.axis)]
        global == [i \in 1..Len(local) |-> transform_vector(m.rigid_body_motion, local[i])]
    IN  [m EXCEPT !.chord_vectors_local = local,
                  !.chord_vectors_global = global,
                  !.chord_vectors_global_at_span_points =
                      span_point_values_from_ctrl_point_values(m, global)]

update_global_span_lines(m) ==
    [m EXCEPT !.span_lines_global =
        [i \in 1..Len(m.span_lines_local) |->
            [start_point |-> transform_point(m.rigid_body_motion,
                                             m.span_lines_local[i].start_point),
             end_point |-> transform_point(m.rigid_body_motion,
                                           m.span_lines_local[i].end_point)]]]

update_global_span_points(m) ==
    LET OfWing == [wing_index \in 1..nr_wings(m) |->
            LET first == m.wing_indices[wing_index].start + 1
                last == m.wing_indices[wing_index].end
            IN  [k \in 1..(last - first + 1) |->
                    m.span_lines_global[first + k - 1].start_point]
                \o <<m.span_lines_global[last].end_point>>]
    IN  [m EXCEPT !.span_points_global = ConcatWings(OfWing, 1, nr_wings(m))]

update_ctrl_points(m) ==
    [m EXCEPT !.ctrl_points_global =
        [i \in 1..Len(m.span_lines_global) |-> ctrl_point(m.span_lines_global[i])]]

\* an update that takes the span points and the control points before it
\* moves the span lines, from the lines of the earlier pose where it has any
update_global_data_representations_points_first(m) ==
    LET with_chords == update_chord_vectors(m)
        held == IF Len(m.span_lines_global) = Len(m.span_lines_local)
                THEN with_chords
                ELSE update_global_span_lines(with_chords)
    IN  update_global_span_lines(update_ctrl_points(update_global_span_points(held)))

update_global_data_representations(m) ==
    update_ctrl_points(
        update_global_span_points(
            update_global_span_lines(
                update_chord_vectors(m))))

\* SpatialVector::distance
distance(a, b) == Length(VecSub(a, b))

\* SpanLine::ctrl_point of a local line, whose end points are plain vectors
local_ctrl_point(line) == VecDiv(VecAdd(line.start_point, line.end_point), 2)

\* current_wing_span_distance of update_ctrl_point_spanwise_distance: the
\* distance along the wing from its start point to each control point, and
\* total_distance, which adds the way from the last control point to the end
wing_span_distance(m, wing_index) ==
    LET first == m.wing_indices[wing_index].start + 1
        n == m.wing_indices[wing_index].end - m.wing_indices[wing_index].start
        point(k) == IF k = 0 THEN m.span_lines_local[first].start_point
                    ELSE local_ctrl_point(m.span_lines_local[first + k - 1])
        current[k \in 0..n] ==
            IF k = 0 THEN 0 ELSE current[k - 1] + distance(point(k), point(k - 1))
    IN  [current |-> [k \in 1..n |-> current[k]],
         total |-> current[n] +
                   distance(m.span_lines_local[first + n - 1].end_point, point(n))]

\* a quotient of two Float values, kept as the pair it is computed from
Ratio(num, den) == [num |-> num, den |-> den]

\* a closure that shifts the distance of a wing with one free end by a half
\* and does not halve it
circulation_model_distance_not_halved(value, non_zero_circulation_at_ends) ==
    CASE non_zero_circulation_at_ends = <<TRUE, TRUE>> -> value
      [] non_zero_circulation_at_ends = <<TRUE, FALSE>> ->
             Ratio(2 * value.num + value.den, 2 * value.den)
      [] non_zero_circulation_at_ends = <<FALSE, TRUE>> ->
             Ratio(2 * value.num - value.den, 2 * value.den)
      [] non_zero_circulation_at_ends = <<FALSE, FALSE>> -> value

\* the closure of update_ctrl_point_spanwise_distance that maps the
\* non-dimensional distance to the one of the circulation model
circulation_model_distance(value, non_zero_circulation_at_ends) ==
    CASE non_zero_circulation_at_ends = <<TRUE, TRUE>> -> value
      [] non_zero_circulation_at_ends = <<TRUE, FALSE>> ->
             Ratio(2 * value.num + value.den, 4 * value.den)
      [] non_zero_circulation_at_ends = <<FALSE, TRUE>> ->
             Ratio(2 * value.num - value.den, 4 * value.den)
      [] non_zero_circulation_at_ends = <<FALSE, FALSE>> -> value

update_ctrl_point_spanwise_distance(m) ==
    LET OfWing(wing_index) == wing_span_distance(m, wing_index)
        Dimensional == [wing_index \in 1..nr_wings(m) |->
            [k \in 1..Len(OfWing(wing_index).current) |->
                Ratio(2 * OfWing(wing_index).current[k] - OfWing(wing_index).total, 2)]]
        NonDimensional == [wing_index \in 1..nr_wings(m) |->
            [k \in 1..Len(OfWing(wing_index).current) |->
                Ratio(2 * OfWing(wing_index).current[k] - OfWing(wing_index).total,
                      2 * OfWing(wing_index).total)]]
        non_dimensional == ConcatWings(NonDimensional, 1, nr_wings(m))
    IN  [m EXCEPT
            !.ctrl_point_spanwise_distance = ConcatWings(Dimensional, 1, nr_wings(m)),
            !.ctrl_point_spanwise_distance_non_dimensional = non_dimensional,
            !.ctrl_point_spanwise_distance_circulation_model =
                [index \in 1..Len(non_dimensional) |->
                    circulation_model_distance(
                        non_dimensional[index],
                        m.non_zero_circulation_at_ends[wing_index_from_global(m, index)])]]

update_calculated_values_after_create(m) ==
    update_ctrl_point_spanwise_distance(update_global_data_representations(m))

\* LineForceModel::section_models_internal_state: the state of a wing
\* whose section model has one, zero for the others
section_models_internal_state(m) ==
    [wing_index \in 1..nr_wings(m) |->
        IF m.section_models[wing_index].kind \in {"VaryingFoil", "RotatingCylinder"}
        THEN m.section_models[wing_index].internal_state
        ELSE 0]

set_section_models_internal_state(m, internal_state) ==
    [m EXCEPT !.section_models =
        [wing_index \in 1..nr_wings(m) |->
            IF m.section_models[wing_index].kind \in {"VaryingFoil", "RotatingCylinder"}
            THEN [m.section_models[wing_index] EXCEPT
                      !.internal_state = internal_state[wing_index]]
            ELSE m.section_models[wing_index]]]

set_local_wing_angles(m, local_wing_angles) ==
    update_global_data_representations(
        [m EXCEPT !.local_wing_angles =
            [index \in 1..Len(m.local_wing_angles) |->
                IF index <= Len(local_wing_angles)
                THEN local_wing_angles[index]
                ELSE m.local_wing_angles[index]]])

reset_local_wing_angles(m) ==
    update_global_data_representations(
        [m EXCEPT !.local_wing_angles = [index \in 1..Len(m.local_wing_angles) |-> 0]])

set_controller_output(m, controller_output) ==
    LET local_wing_angles ==
            [i \in 1..Len(controller_output) |-> controller_output[i].local_wing_angle]
        internal_state ==
            [i \in 1..Len(controller_output) |->
                controller_output[i].section_model_internal_state]
    IN  set_section_models_internal_state(
            set_local_wing_angles(m, local_wing_angles), internal_state)

\* RigidBodyMotion::update_translation_with_velocity_using_finite_difference:
\* backward difference of the pose over time_step, zero when time_step is 0
update_translation_with_velocity_using_finite_difference(rbm, translation, time_step) ==
    [rbm EXCEPT !.velocity_linear =
                    IF time_step > 0
                    THEN VecDiv(VecSub(translation, rbm.translation), time_step)
                    ELSE ZeroVector,
                !.translation = translation]

\* RigidBodyMotion::update_rotation_with_velocity_using_finite_difference
update_rotation_with_velocity_using_finite_difference(rbm, rotation, time_step) ==
    [rbm EXCEPT !.velocity_angular =
                    IF time_step > 0
                    THEN VecDiv(VecSub(rotation, rbm.rotation), time_step)
                    ELSE ZeroVector,
                !.rotation = rotation]

set_translation_and_rotation_with_finite_difference_for_the_velocity(m, time_step, translation, rotation) ==
    update_global_data_representations(
        [m EXCEPT !.rigid_body_motion =
            update_rotation_with_velocity_using_finite_difference(
                update_translation_with_velocity_using_finite_difference(
                    m.rigid_body_motion, translation, time_step),
                rotation, time_step)])

set_translation_only(m, translation) ==
    update_global_data_representations(
        [m EXCEPT !.rigid_body_motion.translation = translation])

\* set_rotation_only without the recompute of the global data
set_rotation_only_stale(m, rotation) ==
    [m EXCEPT !.rigid_body_motion.rotation = rotation]

set_rotation_only(m, rotation) ==
    update_global_data_representations(
        [m EXCEPT !.rigid_body_motion.rotation = rotation])

set_translation_and_rotation(m, translation, rotation) ==
    update_global_data_representations(
        [m EXCEPT !.rigid_body_motion.translation = translation,
                  !.rigid_body_motion.rotation = rotation])

\* LineForceModelBuilder::build: the wings as configured, at rest in the
\* body-fixed position, the calculated values updated after create
BuildLineForceModel(geometry) ==
    update_calculated_values_after_create(
        [wing_indices |-> geometry.wing_indices,
         span_lines_local |-> geometry.span_lines_local,
         chord_vectors_local_not_rotated |-> geometry.chord_vectors_local_not_rotated,
         section_models |-> geometry.section_models,
         non_zero_circulation_at_ends |-> geometry.non_zero_circulation_at_ends,
         ctrl_point_spanwise_distance |-> <<>>,
         ctrl_point_spanwise_distance_non_dimensional |-> <<>>,
         ctrl_point_spanwise_distance_circulation_model |-> <<>>,
         local_wing_angles |-> [w \in 1..Len(geometry.wing_indices) |-> 0],
         rigid_body_motion |-> [translation |-> ZeroVector, rotation |-> ZeroVector,
                                velocity_linear |-> ZeroVector,
                                velocity_angular |-> ZeroVector],
         chord_vectors_local |-> <<>>,
         chord_vectors_global |-> <<>>,
         chord_vectors_global_at_span_points |-> <<>>,
         span_lines_global |-> <<>>,
         span_points_global |-> <<>>,
         ctrl_points_global |-> <<>>])

----------------------------------------------------------------------------
(* The aerodynamic side of the line force model (line_force_model/mod.rs), *)
(* the simulation result and the flow measurements of the controller.      *)
(* Circulation strengths and forces are counted in units of                *)
(* 1 / CirculationScale, so that a relaxation with a damping factor of one *)
(* half stays exact for as many steps as the model takes.                  *)

MaxIterations == 3

CirculationScale == 2 ^ (MaxIterations + 1)

RECURSIVE SumSeq(_)
SumSeq(values) == IF values = <<>> THEN 0 ELSE Head(values) + SumSeq(Tail(values))

\* the mean of the values of a wing's lines
WingMean(m, wing_index, values) ==
    LET lines == WingLines(m, wing_index)
        first == m.wing_indices[wing_index].start + 1
    IN  SumSeq([k \in 1..Cardinality(lines) |-> values[first + k - 1]]) \div Cardinality(lines)

\* the angle of (x, y) in the plane z = 0, to the nearest eighth of a turn;
\* exact on the axes and the diagonals
Direction(v) ==
    LET ax == Abs(v[1])
        ay == Abs(v[2])
        a == IF 2 * ay < ax \/ (ax = 0 /\ ay = 0) THEN 0 ELSE IF 2 * ax < ay THEN 2 ELSE 1
    IN  IF v[2] >= 0 THEN (IF v[1] >= 0 THEN a ELSE PI - a)
        ELSE (IF v[1] >= 0 THEN -a ELSE a - PI)

\* a rotation about the z axis by a number of eighths of a turn: exact for
\* quarter turns, with 7/10 for the sine and cosine of the odd eighth
rotate_z(v, angle) ==
    LET quarters == (angle % TAU) \div 2
        q == CASE quarters = 0 -> v
               [] quarters = 1 -> <<-v[2], v[1], v[3]>>
               [] quarters = 2 -> <<-v[1], -v[2], v[3]>>
               [] quarters = 3 -> <<v[2], -v[1], v[3]>>
    IN  IF angle % 2 = 0 THEN q
        ELSE <<((q[1] - q[2]) * 7) \div 10, ((q[1] + q[2]) * 7) \div 10, q[3]>>

\* the coordinates of a transformed point
point_value(p) == VecAdd(rotate_z(p.point, p.rotation[3]), p.translation)

\* the coordinates of a control point
ctrl_point_value(cp) ==
    VecDiv(VecAdd(point_value(cp.midway[1]), point_value(cp.midway[2])), 2)

\* SpanLine::relative_vector of a global line
relative_vector(line) ==
    rotate_z(VecSub(line.end_point.point, line.start_point.point),
             line.start_point.rotation[3])

\* the direction of a global chord vector in the plane z = 0
chord_angle(chord) == Direction(chord.vector.vector) + chord.vector.angle + chord.rotation[3]

chord_length(chord) == Length(chord.vector.vector)

\* LineForceModel::angles_of_attack, CoordinateSystem::Global
angles_of_attack(m, velocity) ==
    [i \in 1..nr_span_lines(m) |->
        correct_angle_to_be_between_pi_and_negative_pi(
            Direction(velocity[i]) - chord_angle(m.chord_vectors_global[i]))]

\* the lift coefficient of a foil: linear up to a quarter turn, falling after
lift_coefficient(angle_of_attack) ==
    IF Abs(angle_of_attack) <= 2 THEN angle_of_attack
    ELSE Signum(angle_of_attack) * (PI - Abs(angle_of_attack))

\* LineForceModel::circulation_strength: per line, from the section model
\* of the line's wing
circulation_strength(m, angles, velocity) ==
    [i \in 1..nr_span_lines(m) |->
        LET section == m.section_models[wing_index_from_global(m, i)]
            chord == chord_length(m.chord_vectors_global[i])
            speed == Length(velocity[i])
        IN  CASE section.kind = "Foil" ->
                     CirculationScale * chord * speed * lift_coefficient(angles[i])
              [] section.kind = "VaryingFoil" ->
                     CirculationScale * chord * speed *
                         (lift_coefficient(angles[i]) + section.internal_state)
              [] section.kind = "RotatingCylinder" ->
                     IF speed = 0 THEN 0
                     ELSE CirculationScale * chord * chord * section.internal_state
              [] section.kind = "EffectiveWindSensor" -> 0]

\* LineForceModel::average_residual_absolute: the mean distance of a
\* circulation from the one the section models give
average_residual_absolute(m, angles, circulation, velocity) ==
    LET estimated == circulation_strength(m, angles, velocity)
    IN  SumSeq([i \in 1..nr_span_lines(m) |-> Abs(estimated[i] - circulation[i])])
            \div nr_span_lines(m)

\* LineForceModel::remove_span_velocity, CoordinateSystem::Global
remove_span_velocity(m, velocity) ==
    [i \in 1..Len(velocity) |->
        LET span == relative_vector(m.span_lines_global[i])
        IN  VecSub(velocity[i],
                   VecDiv(VecScale(span, Dot(velocity[i], span)), Dot(span, span)))]

\* the sum of the vectors of a wing's lines
WingSum(m, wing_index, vectors) ==
    LET first == m.wing_indices[wing_index].start + 1
        n == Cardinality(WingLines(m, wing_index))
    IN  <<SumSeq([k \in 1..n |-> vectors[first + k - 1][1]]),
          SumSeq([k \in 1..n |-> vectors[first + k - 1][2]]),
          SumSeq([k \in 1..n |-> vectors[first + k - 1][3]])>>

\* LineForceModel::calculate_simulation_result: the circulatory force of a
\* line is circulation * velocity x span, its drag is along the velocity; the
\* section models of the model have no viscous lift
calculate_simulation_result(m, solver_result, ctrl_point_acceleration, time) ==
    LET velocity == solver_result.output_ctrl_points_velocity
        lines == 1..nr_span_lines(m)
    IN  Bind([i \in lines |->
                 VecScale(Cross(velocity[i], relative_vector(m.span_lines_global[i])),
                          solver_result.circulation_strength[i])], LAMBDA circulatory :
        Bind([i \in lines |->
                 VecScale(velocity[i],
                          CirculationScale * chord_length(m.chord_vectors_global[i]) *
                              Length(velocity[i]))], LAMBDA sectional_drag :
        Bind([i \in lines |-> VecAdd(circulatory[i], sectional_drag[i])], LAMBDA total :
        Bind([i \in lines |-> Cross(ctrl_point_value(m.ctrl_points_global[i]), total[i])],
             LAMBDA moment :
            [time |-> time,
             wing_indices |-> m.wing_indices,
             force_input |-> [circulation_strength |-> solver_result.circulation_strength,
                              velocity |-> velocity,
                              angles_of_attack |-> angles_of_attack(m, velocity),
                              acceleration |-> ctrl_point_acceleration],
             sectional_forces |-> [circulatory |-> circulatory,
                                   viscous_lift |-> [i \in lines |-> ZeroVector],
                                   sectional_drag |-> sectional_drag],
             integrated_forces |-> [w \in 1..nr_wings(m) |-> WingSum(m, w, total)],
             integrated_moments |-> [w \in 1..nr_wings(m) |-> WingSum(m, w, moment)],
             iterations |-> solver_result.iterations,
             residual |-> solver_result.residual]))))

----------------------------------------------------------------------------
(* controller/input.rs and the flow measurements it takes *)

\* WindEnvironment::default
DefaultWindEnvironment ==
    [height_variation_model |-> None,
     up_direction |-> <<0, 0, 1>>,
     wind_rotation_axis |-> <<0, 0, -1>>,
     zero_direction_vector |-> <<1, 0, 0>>,
     water_plane_height |-> 0,
     inflow_corrections |-> None]

\* SpatialVector::signed_angle_between about an axis along z
signed_angle_between(a, b, axis) ==
    correct_angle_to_be_between_pi_and_negative_pi(
        Signum(axis[3]) * (Direction(b) - Direction(a)))

\* measure_angles_of_attack: per wing, the mean over the wing's lines
measure_angles_of_attack(m, simulation_result) ==
    [w \in 1..nr_wings(m) |-> WingMean(m, w, simulation_result.force_input.angles_of_attack)]

\* measure_wind_velocity_magnitude: per wing, the mean speed
measure_wind_velocity_magnitude(m, simulation_result) ==
    [w \in 1..nr_wings(m) |->
        WingMean(m, w, [i \in 1..nr_span_lines(m) |->
                           Length(simulation_result.force_input.velocity[i])])]

\* measure_apparent_wind_direction: per wing, the mean signed angle from the
\* environment's zero direction to the velocity
measure_apparent_wind_direction(m, simulation_result, wind_environment) ==
    [w \in 1..nr_wings(m) |->
        WingMean(m, w, [i \in 1..nr_span_lines(m) |->
                           signed_angle_between(wind_environment.zero_direction_vector,
                                                simulation_result.force_input.velocity[i],
                                                wind_environment.wind_rotation_axis)])]

new_from_simulation_result(loading, m, simulation_result, wind_environment) ==
    LET internal_state == section_models_internal_state(m)
        angles == measure_angles_of_attack(m, simulation_result)
        velocities == measure_wind_velocity_magnitude(m, simulation_result)
        directions == measure_apparent_wind_direction(m, simulation_result, wind_environment)
    IN  [i \in 1..nr_wings(m) |->
            [loading |-> loading,
             current_local_wing_angle |-> m.local_wing_angles[i],
             current_section_model_internal_state |-> internal_state[i],
             angle_of_attack |-> angles[i],
             velocity |-> velocities[i],
             apparent_wind_direction |-> directions[i]]]

----------------------------------------------------------------------------
(* actuator_line/mod.rs, actuator_line/builder.rs, actuator_line/corrections *)

\* LiftingLineCorrection::velocity_correction: the downwash of the last
\* circulation, none before the model has run for some time
velocity_correction(correction, m, ctrl_points_velocity, last_circulation_strength, elapsed) ==
    [i \in 1..Len(ctrl_points_velocity) |->
        IF elapsed <= 0 THEN ZeroVector
        ELSE <<0,
               -(last_circulation_strength[i] \div
                    (CirculationScale * correction.viscous_core_length)),
               0>>]

\* EmpiricalCirculationCorrection::correction_factor: one on the inner half
\* of the span, the configured factor on the outer half
correction_factor(correction, position) ==
    IF 4 * Abs(position.num) < position.den THEN Ratio(1, 1) ELSE correction.outer_factor

\* ActuatorLineBuilder::build, besides line_force_model and controller
build_actuator_line(builder, nr_lines) ==
    [projection_settings |-> builder.projection_settings,
     solver_settings |-> builder.solver_settings,
     sampling_settings |-> builder.sampling_settings,
     start_time |-> builder.start_time,
     current_iteration |-> 0,
     ctrl_points_velocity |-> [i \in 1..nr_lines |-> ZeroVector],
     simulation_result |-> None,
     sectional_lift_forces_to_project |-> [i \in 1..nr_lines |-> ZeroVector],
     sectional_drag_forces_to_project |-> [i \in 1..nr_lines |-> ZeroVector],
     lifting_line_correction |-> builder.lifting_line_correction,
     empirical_circulation_correction |-> builder.empirical_circulation_correction]

\* the end velocities of one wing, extrapolated from its inner lines
extrapolate_wing(m, wing_index, velocity) ==
    LET first == m.wing_indices[wing_index].start + 1
        second == first + 1
        third == second + 1
        last == m.wing_indices[wing_index].end
        second_to_last == last - 1
        third_to_last == second_to_last - 1
        first_delta_velocity == VecSub(velocity[second], velocity[third])
        last_delta_velocity == VecSub(velocity[second_to_last], velocity[third_to_last])
        with_first == [velocity EXCEPT ![first] = VecAdd(velocity[second], first_delta_velocity)]
    IN  [with_first EXCEPT ![last] = VecAdd(with_first[second_to_last], last_delta_velocity)]

RECURSIVE extrapolate_end_velocities(_, _, _)
extrapolate_end_velocities(m, wing_index, velocity) ==
    IF wing_index > nr_wings(m) THEN velocity
    ELSE Bind(extrapolate_wing(m, wing_index, velocity), LAMBDA extrapolated :
             extrapolate_end_velocities(m, wing_index + 1, extrapolated))

\* the indices of the extrapolation of one wing, as the source counts them
\* (from zero): those read, and those written
extrapolation_indices(m, wing_index) ==
    LET first_line_index == m.wing_indices[wing_index].start
        last_line_index == m.wing_indices[wing_index].end - 1
    IN  [read |-> {first_line_index + 1, first_line_index + 2,
                   last_line_index - 1, last_line_index - 2},
         written |-> {first_line_index, last_line_index}]

\* whether the extrapolation panics: an index under zero (usize) or one
\* past the end of the velocities
extrapolation_panics(m, nr_lines) ==
    \E wing_index \in 1..nr_wings(m) :
        \E index \in extrapolation_indices(m, wing_index).read \cup
                      extrapolation_indices(m, wing_index).written :
            index < 0 \/ index >= nr_lines

corrected_ctrl_points_velocity(al, m, time) ==
    LET last_circulation_strength ==
            IF al.simulation_result.is_some
            THEN al.simulation_result.value.force_input.circulation_strength
            ELSE [i \in 1..nr_span_lines(m) |-> 0]
    IN  Bind(IF al.sampling_settings.remove_span_velocity
             THEN remove_span_velocity(m, al.ctrl_points_velocity)
             ELSE al.ctrl_points_velocity, LAMBDA sampled :
        Bind(IF al.lifting_line_correction.is_some
             THEN Bind(velocity_correction(al.lifting_line_correction.value, m,
                                           al.ctrl_points_velocity,
                                           last_circulation_strength,
                                           time - al.start_time),
                       LAMBDA ll_velocity_correction :
                           [i \in 1..Len(sampled) |->
                               VecAdd(sampled[i], ll_velocity_correction[i])])
             ELSE sampled, LAMBDA with_lifting_line :
        Bind([i \in 1..Len(with_lifting_line) |->
                 VecScale(with_lifting_line[i], al.sampling_settings.correction_factor)],
             LAMBDA scaled :
                 IF al.sampling_settings.extrapolate_end_velocities
                 THEN extrapolate_end_velocities(m, 1, scaled)
                 ELSE scaled)))

\* solve, up to the empirical correction: the corrected velocity, the
\* angles of attack and the new estimate of the circulation strength
new_estimated_circulation_strength(al, m, time) ==
    Bind(corrected_ctrl_points_velocity(al, m, time), LAMBDA velocity :
    Bind(angles_of_attack(m, velocity), LAMBDA angles :
    Bind(circulation_strength(m, angles, velocity), LAMBDA estimated :
        IF al.empirical_circulation_correction.is_some
        THEN [i \in 1..Len(estimated) |->
                LET factor == correction_factor(
                                  al.empirical_circulation_correction.value,
                                  m.ctrl_point_spanwise_distance_circulation_model[i])
                IN  (estimated[i] * factor.num) \div factor.den]
        ELSE estimated)))

\* previous_strength of a solve that starts every step from zero
previous_strength_from_zero(al, m) == [i \in 1..nr_span_lines(m) |-> 0]

\* previous_strength of solve: the circulation of the stored result
previous_strength(al, m) ==
    IF al.simulation_result.is_some
    THEN al.simulation_result.value.force_input.circulation_strength
    ELSE [i \in 1..nr_span_lines(m) |-> 0]

\* the relaxation of a solve that damps the estimate alone
relaxed_estimate_only(previous, estimated, damping_factor) ==
    [i \in 1..Len(estimated) |-> (damping_factor.num * estimated[i]) \div damping_factor.den]

\* the relaxation loop of solve
relaxed_circulation_strength(previous, estimated, damping_factor) ==
    [i \in 1..Len(estimated) |->
        LET strength_difference == estimated[i] - previous[i]
        IN  previous[i] + (damping_factor.num * strength_difference) \div damping_factor.den]

\* a solve that relaxes the estimate of the section models and applies the
\* empirical correction to the relaxed circulation
solve_relaxing_before_correction(al, m, time, time_step) ==
    LET velocity == corrected_ctrl_points_velocity(al, m, time)
        angles == angles_of_attack(m, velocity)
        relaxed == relaxed_circulation_strength(
                       previous_strength(al, m), circulation_strength(m, angles, velocity),
                       al.solver_settings.damping_factor)
        factor(i) == correction_factor(al.empirical_circulation_correction.value,
                                       m.ctrl_point_spanwise_distance_circulation_model[i])
        circulation == IF al.empirical_circulation_correction.is_some
                       THEN [i \in 1..Len(relaxed) |->
                                (relaxed[i] * factor(i).num) \div factor(i).den]
                       ELSE relaxed
    IN  [input_ctrl_points_velocity |-> al.ctrl_points_velocity,
         circulation_strength |-> circulation,
         output_ctrl_points_velocity |-> velocity,
         iterations |-> 1,
         residual |-> average_residual_absolute(m, angles, circulation, velocity)]

solve(al, m, time, time_step) ==
    Bind(corrected_ctrl_points_velocity(al, m, time), LAMBDA velocity :
    Bind(angles_of_attack(m, velocity), LAMBDA angles :
    Bind(previous_strength(al, m), LAMBDA previous :
    Bind(new_estimated_circulation_strength(al, m, time), LAMBDA estimated :
    Bind(relaxed_circulation_strength(previous, estimated, al.solver_settings.damping_factor),
         LAMBDA circulation :
            [input_ctrl_points_velocity |-> al.ctrl_points_velocity,
             circulation_strength |-> circulation,
             output_ctrl_points_velocity |-> velocity,
             iterations |-> 1,
             residual |-> average_residual_absolute(m, angles, circulation, velocity)])))))

\* SpatialVector::normalize, times a length; the zero vector stays zero
with_length(direction, length) ==
    IF Length(direction) = 0 THEN ZeroVector
    ELSE VecDiv(VecScale(direction, length), Length(direction))

update_sectional_forces_to_project(al, m) ==
    LET lines == 1..nr_span_lines(m) IN
    IF al.simulation_result.is_some
    THEN LET forces == al.simulation_result.value.sectional_forces
             lift(i) == IF al.projection_settings.project_viscous_lift
                        THEN VecAdd(forces.circulatory[i], forces.viscous_lift[i])
                        ELSE forces.circulatory[i]
             drag(i) == IF al.projection_settings.project_sectional_drag
                        THEN forces.sectional_drag[i]
                        ELSE ZeroVector
             lift_direction(i) == Cross(relative_vector(m.span_lines_global[i]),
                                        al.ctrl_points_velocity[i])
         IN  [al EXCEPT
                 !.sectional_lift_forces_to_project = [i \in lines |->
                     IF al.projection_settings.realign_sectional_forces
                     THEN with_length(lift_direction(i), Length(lift(i)))
                     ELSE lift(i)],
                 !.sectional_drag_forces_to_project = [i \in lines |->
                     IF al.projection_settings.realign_sectional_forces
                     THEN with_length(al.ctrl_points_velocity[i], Length(drag(i)))
                     ELSE drag(i)]]
    ELSE [al EXCEPT !.sectional_lift_forces_to_project = [i \in lines |-> ZeroVector],
                    !.sectional_drag_forces_to_project = [i \in lines |-> ZeroVector]]

\* the coordinates of the control point of a global span line
line_ctrl_point_value(line) ==
    VecDiv(VecAdd(point_value(line.start_point), point_value(line.end_point)), 2)

\* ProjectionSettings::projection_value_at_point: a kernel around the line
\* as wide as the projection function makes it for the chord, zero outside
projection_value_at_point(settings, point, chord_vector, span_line) ==
    LET width == (settings.projection_function.chord_factor +
                  settings.projection_function.thickness_factor) *
                     chord_length(chord_vector)
    IN  Max(0, width - distance(point, line_ctrl_point_value(span_line)))

\* SpanLine::line_coordinates: the coordinate of a point along the span,
\* measured from the control point in units of the span vector's length
line_coordinates(span_line, point, chord_vector) ==
    LET span == relative_vector(span_line)
    IN  [span |-> Dot(VecSub(point, line_ctrl_point_value(span_line)), span)
                      \div Max(1, Length(span))]

\* gaussian_kernel: largest at the mean, falling to zero with the distance
gaussian_kernel(x, mean, smoothing_length) == Max(0, smoothing_length - Abs(x - mean))

\* what a method would leave that took the forces it hands out
mutable_borrow_taking_forces(al, m) ==
    [actuator_line |-> [al EXCEPT
         !.sectional_lift_forces_to_project = [i \in 1..nr_span_lines(m) |-> ZeroVector],
         !.sectional_drag_forces_to_project = [i \in 1..nr_span_lines(m) |-> ZeroVector]],
     line_force_model |-> m]

\* what a method that borrows the actuator line as &self leaves of it
shared_borrow(al, m) == [actuator_line |-> al, line_force_model |-> m]

get_weighted_velocity_sampling_integral_terms_for_cell(al, m, line_index, velocity, cell_center, cell_volume) ==
    LET span_line == m.span_lines_global[line_index + 1]
        chord_vector == m.chord_vectors_global[line_index + 1]
        projection_value_org == projection_value_at_point(
                                    al.projection_settings, cell_center, chord_vector, span_line)
        projection_value ==
            IF projection_value_org > 0
            THEN LET coordinates == line_coordinates(span_line, cell_center, chord_vector)
                     span_projection ==
                         IF al.sampling_settings.neglect_span_projection THEN 1
                         ELSE gaussian_kernel(
                                  coordinates.span, 0,
                                  al.sampling_settings.span_projection_factor *
                                      Length(relative_vector(span_line)))
                 IN  projection_value_org * span_projection
            ELSE 0
        denominator == cell_volume * projection_value
    IN  <<VecScale(velocity, denominator), denominator>>

force_to_project_at_cell(al, m, line_index, velocity) ==
    LET lift_force == al.sectional_lift_forces_to_project[line_index + 1]
        drag_force == al.sectional_drag_forces_to_project[line_index + 1]
    IN  IF al.projection_settings.realign_to_local_velocity_at_each_cell
        THEN LET line == m.span_lines_global[line_index + 1]
                 lift_direction == Cross(relative_vector(line), velocity)
             IN  VecAdd(with_length(lift_direction, Length(lift_force)),
                        with_length(velocity, Length(drag_force)))
        ELSE VecAdd(lift_force, drag_force)

line_segments_projection_weights_at_point(al, m, point) ==
    [i \in 1..nr_span_lines(m) |->
        projection_value_at_point(al.projection_settings, point,
                                  m.chord_vectors_global[i], m.span_lines_global[i])]

summed_projection_weights_at_point(al, m, point) ==
    SumSeq(line_segments_projection_weights_at_point(al, m, point))

\* the loop of dominating_line_element_index_at_point over the weights from
\* index i on, max_weight and max_index being those found so far
RECURSIVE dominating_from(_, _, _, _)
dominating_from(projection_weights, i, max_weight, max_index) ==
    IF i >= Len(projection_weights) THEN max_index
    ELSE IF projection_weights[i + 1] > max_weight
         THEN dominating_from(projection_weights, i + 1, projection_weights[i + 1], i)
         ELSE dominating_from(projection_weights, i + 1, max_weight, max_index)

dominating_line_element_index_at_point(al, m, point) ==
    Bind(line_segments_projection_weights_at_point(al, m, point), LAMBDA projection_weights :
        dominating_from(projection_weights, 0, -1, 0))

\* do_step without the test of the start time
do_step_from_time_zero(al, m, time, time_step) ==
    LET stepped ==
            Bind(solve(al, m, time, time_step), LAMBDA solver_result :
            Bind(calculate_simulation_result(
                     m, solver_result, [i \in 1..nr_span_lines(m) |-> ZeroVector], time),
                 LAMBDA simulation_result :
            Bind([al EXCEPT !.simulation_result = Some(simulation_result)],
                 LAMBDA with_result : update_sectional_forces_to_project(with_result, m))))
    IN  [stepped EXCEPT !.current_iteration = al.current_iteration + 1]

\* update_controller with the missing simulation result taken as no output
update_controller_skipping_missing_result(al, m, c, time, time_step) ==
    IF time >= al.start_time
    THEN LET controller_output ==
                 IF c.is_some /\ al.simulation_result.is_some
                 THEN update(c.value, time, time_step,
                             new_from_simulation_result(
                                 1, m, al.simulation_result.value,
                                 DefaultWindEnvironment))
                 ELSE None
         IN  IF controller_output.is_some
             THEN [panicked |-> FALSE, need_update |-> TRUE,
                   line_force_model |-> set_controller_output(m, controller_output.value)]
             ELSE [panicked |-> FALSE, need_update |-> FALSE, line_force_model |-> m]
    ELSE [panicked |-> FALSE, need_update |-> FALSE, line_force_model |-> m]

do_step(al, m, time, time_step) ==
    LET stepped ==
            IF time >= al.start_time
            THEN Bind(solve(al, m, time, time_step), LAMBDA solver_result :
                 Bind(calculate_simulation_result(
                          m, solver_result, [i \in 1..nr_span_lines(m) |-> ZeroVector], time),
                      LAMBDA simulation_result :
                 Bind([al EXCEPT !.simulation_result = Some(simulation_result)],
                      LAMBDA with_result : update_sectional_forces_to_project(with_result, m))))
            ELSE al
    IN  [stepped EXCEPT !.current_iteration = al.current_iteration + 1]

\* update_controller: the value returned, the line force model it leaves and
\* whether the unwrap of the simulation result panics
update_controller(al, m, c, time, time_step) ==
    IF time >= al.start_time
    THEN IF c.is_some /\ ~al.simulation_result.is_some
         THEN [panicked |-> TRUE, need_update |-> FALSE, line_force_model |-> m]
         ELSE LET controller_output ==
                      IF c.is_some
                      THEN update(c.value, time, time_step,
                                  new_from_simulation_result(
                                      1, m, al.simulation_result.value,
                                      DefaultWindEnvironment))
                      ELSE None
              IN  IF controller_output.is_some
                  THEN [panicked |-> FALSE, need_update |-> TRUE,
                        line_force_model |-> set_controller_output(m, controller_output.value)]
                  ELSE [panicked |-> FALSE, need_update |-> FALSE, line_force_model |-> m]
    ELSE [panicked |-> FALSE, need_update |-> FALSE, line_force_model |-> m]

----------------------------------------------------------------------------
(* wind/environment.rs *)

\* SpatialVector::rotate_around_axis with coordinates: the axis along z, the
\* angle a number of quarter turns
rotate_around_z_axis(v, angle, axis) == rotate_z(v, Signum(axis[3]) * angle)

\* HeightVariationModel::velocity_increase_factor: one up to the reference
\* height, two above it
velocity_increase_factor(model, height) == IF height > model.reference_height THEN 2 ELSE 1

\* the heights at which true_wind_velocity_at_height evaluates the height
\* variation model
height_variation_evaluations(env, height) ==
    IF env.height_variation_model.is_some /\ height > 0 THEN <<height>> ELSE <<>>

true_wind_velocity_at_height(env, condition, height) ==
    LET evaluations == height_variation_evaluations(env, height)
        increase_factor ==
            IF env.height_variation_model.is_some
            THEN IF evaluations # <<>>
                 THEN velocity_increase_factor(env.height_variation_model.value,
                                               evaluations[1])
                 ELSE 0
            ELSE 1
    IN  increase_factor * condition.velocity

\* the height of true_wind_velocity_at_location, were it not clamped
location_height_unclamped(env, location) ==
    Dot(location, env.up_direction) - env.water_plane_height

\* the height true_wind_velocity_at_location passes on
location_height(env, location) ==
    Max(Dot(location, env.up_direction) - env.water_plane_height, 0)

true_wind_velocity_at_location(env, condition, location) ==
    true_wind_velocity_at_height(env, condition, location_height(env, location))

\* a true wind vector turned about the up direction, not the wind rotation axis
true_wind_velocity_vector_about_up(env, condition, location) ==
    VecScale(rotate_around_z_axis(env.zero_direction_vector,
                                  condition.direction_coming_from, env.up_direction),
             true_wind_velocity_at_location(env, condition, location))

true_wind_velocity_vector_at_location(env, condition, location) ==
    LET velocity == true_wind_velocity_at_location(env, condition, location)
        direction_vector == rotate_around_z_axis(env.zero_direction_vector,
                                                 condition.direction_coming_from,
                                                 env.wind_rotation_axis)
    IN  VecScale(direction_vector, velocity)

apparent_wind_velocity_vector_at_location(env, condition, location, linear_velocity) ==
    VecAdd(true_wind_velocity_vector_at_location(env, condition, location), linear_velocity)

apparent_wind_velocity_vectors_at_locations(env, condition, locations, linear_velocity) ==
    [i \in 1..Len(locations) |->
        apparent_wind_velocity_vector_at_location(env, condition, locations[i],
                                                  linear_velocity)]

apparent_wind_direction_from_condition_and_linear_velocity_and_height(env, condition, linear_velocity, height) ==
    LET true_wind_velocity == true_wind_velocity_at_height(env, condition, height)
        true_wind_vector ==
            VecScale(rotate_around_z_axis(env.zero_direction_vector,
                                          condition.direction_coming_from,
                                          env.wind_rotation_axis),
                     true_wind_velocity)
        apparent_velocity_vector == VecAdd(true_wind_vector, linear_velocity)
    IN  signed_angle_between(env.zero_direction_vector, apparent_velocity_vector,
                             env.wind_rotation_axis)

\* InflowCorrections::correct_velocity_single_sail: the velocity scaled by
\* the factor of the sail, in the lee of another sail only
correct_velocity_single_sail(corrections, wing_index, apparent_wind_direction, height, velocity, up_direction) ==
    IF Abs(apparent_wind_direction) < 2
    THEN VecScale(velocity, corrections.magnitude_factor[wing_index])
    ELSE velocity

apply_inflow_corrections(env, apparent_wind_direction, freestream_velocity, ctrl_points, wing_indices) ==
    IF env.inflow_corrections.is_some
    THEN [i \in 1..Len(freestream_velocity) |->
            LET wing_index == CHOOSE w \in 1..Len(wing_indices) :
                                  wing_indices[w].start < i /\ i <= wing_indices[w].end
            IN  correct_velocity_single_sail(
                    env.inflow_corrections.value, wing_index, apparent_wind_direction,
                    Dot(ctrl_points[i], env.up_direction), freestream_velocity[i],
                    env.up_direction)]
    ELSE freestream_velocity

----------------------------------------------------------------------------
(* interfaces/fmus/stormbird_lifting_line/src/lib.rs.  The model of the    *)
(* FMU holds each group of x, y, z variables as one vector and the         *)
(* variables numbered 1 to 10 as one sequence; its lifting-line model      *)
(* works on line_force_model and its controller is controller.            *)

NrSailVariables == 10

\* f64::to_radians and f64::to_degrees: 45 degrees are an eighth of a turn
to_radians(degrees) == degrees \div 45

to_degrees(radians) == radians * 45

\* ModelScaling::upscale_time: time scales with the root of the length scale
upscale_time(scaling, time) == time * Isqrt(scaling.scale)

\* a moving average (input_filters.rs): add, then get_average
filter_add(samples, value, window) ==
    IF Len(samples) < window THEN Append(samples, value) ELSE Append(Tail(samples), value)

filter_average(samples) ==
    VecDiv(<<SumSeq([k \in 1..Len(samples) |-> samples[k][1]]),
             SumSeq([k \in 1..Len(samples) |-> samples[k][2]]),
             SumSeq([k \in 1..Len(samples) |-> samples[k][3]])>>, Len(samples))

apply_filters_to_input_if_activated(f) ==
    IF f.input_filters.is_some
    THEN LET filters == f.input_filters.value
             added == [filters EXCEPT
                 !.translation = filter_add(@, f.translation, filters.window),
                 !.rotation = filter_add(@, f.rotation, filters.window),
                 !.motion_velocity_linear =
                     filter_add(@, f.motion_velocity_linear, filters.window),
                 !.motion_velocity_angular =
                     filter_add(@, f.motion_velocity_angular, filters.window)]
         IN  [f EXCEPT !.input_filters = Some(added),
                       !.translation = filter_average(added.translation),
                       !.rotation = filter_average(added.rotation),
                       !.motion_velocity_linear = filter_average(added.motion_velocity_linear),
                       !.motion_velocity_angular =
                           filter_average(added.motion_velocity_angular)]
    ELSE f

fmu_nr_wings(f, m) == IF f.stormbird_model.is_some THEN nr_wings(m) ELSE 0

rotation_vector(f) ==
    IF f.parameters.angles_in_degrees
    THEN <<to_radians(f.rotation[1]), to_radians(f.rotation[2]), to_radians(f.rotation[3])>>
    ELSE f.rotation

translation_vector(f) == f.translation

\* SpatialVector::from_rotated_to_global_system, for a rotation about z
from_rotated_to_global_system(v, rotation) == rotate_z(v, rotation[3])

motion_velocity_linear_vector(f) ==
    IF f.stormbird_model.is_some /\ f.parameters.motion_velocity_in_body_fixed_frame
    THEN from_rotated_to_global_system(f.motion_velocity_linear, rotation_vector(f))
    ELSE f.motion_velocity_linear

motion_velocity_angular_vector(f) ==
    IF f.parameters.angles_in_degrees
    THEN <<to_radians(f.motion_velocity_angular[1]),
           to_radians(f.motion_velocity_angular[2]),
           to_radians(f.motion_velocity_angular[3])>>
    ELSE f.motion_velocity_angular

wind_direction(f) ==
    LET direction == IF f.parameters.angles_in_degrees
                     THEN to_radians(f.wind_direction_coming_from)
                     ELSE f.wind_direction_coming_from
    IN  IF direction < -PI THEN direction + 2 * PI
        ELSE IF direction > PI THEN direction - 2 * PI
        ELSE direction

\* Simulation::get_freestream_velocity_points: the control points
get_freestream_velocity_points(m) ==
    [i \in 1..Len(m.ctrl_points_global) |-> ctrl_point_value(m.ctrl_points_global[i])]

\* freestream_velocity, for an FMU with a wind environment; without one the
\* function panics
freestream_velocity(f, m) ==
    LET freestream_velocity_points ==
            IF f.stormbird_model.is_some THEN get_freestream_velocity_points(m) ELSE <<>>
        wind_condition == [velocity |-> f.wind_velocity,
                           direction_coming_from |-> wind_direction(f)]
        linear_velocity ==
            IF f.parameters.use_motion_velocity_linear_as_freestream
            THEN VecScale(motion_velocity_linear_vector(f), -1)
            ELSE ZeroVector
        env == f.wind_environment.value
        apparent_wind_direction ==
            apparent_wind_direction_from_condition_and_linear_velocity_and_height(
                env, wind_condition, linear_velocity, 10)
        velocity == apparent_wind_velocity_vectors_at_locations(
                        env, wind_condition, freestream_velocity_points, linear_velocity)
    IN  IF f.stormbird_model.is_some
        THEN apply_inflow_corrections(env, apparent_wind_direction, velocity,
                                      freestream_velocity_points, m.wing_indices)
        ELSE velocity

fmu_local_wing_angles(f, m) ==
    [i \in 1..fmu_nr_wings(f, m) |->
        IF f.parameters.angles_in_degrees
        THEN to_radians(f.local_wing_angle[i])
        ELSE f.local_wing_angle[i]]

fmu_section_models_internal_state(f, m) ==
    [i \in 1..fmu_nr_wings(f, m) |-> f.section_models_internal_state[i]]

\* set_model_control_values_from_input: the wing angles are written to the
\* field, the internal states set by the line force model
set_model_control_values_from_input(f, m) ==
    IF f.stormbird_model.is_some
    THEN set_section_models_internal_state(
             [m EXCEPT !.local_wing_angles = fmu_local_wing_angles(f, m)],
             fmu_section_models_internal_state(f, m))
    ELSE m

set_model_control_values_from_controller_output(f, m, controller_output) ==
    IF f.stormbird_model.is_some THEN set_controller_output(m, controller_output) ELSE m

\* set_line_force_model_state with the inputs copied whatever the controller
\* and the iteration
set_line_force_model_state_copying_inputs(f, m, c, time_step) ==
    LET translation == translation_vector(f)
        rotation == rotation_vector(f)
        motion_velocity_linear == motion_velocity_linear_vector(f)
        motion_velocity_angular == motion_velocity_angular_vector(f)
        controlled == set_model_control_values_from_input(f, m)
        moved == update_rotation_with_velocity_using_finite_difference(
                     update_translation_with_velocity_using_finite_difference(
                         controlled.rigid_body_motion, translation, time_step),
                     rotation, time_step)
        overridden ==
            IF f.parameters.use_motion_velocity
            THEN [moved EXCEPT
                     !.velocity_angular = motion_velocity_angular,
                     !.velocity_linear =
                         IF ~f.parameters.use_motion_velocity_linear_as_freestream
                         THEN motion_velocity_linear
                         ELSE @]
            ELSE moved
    IN  IF f.stormbird_model.is_some
        THEN [fmu |-> [f EXCEPT
                          !.calculated_motion_velocity_linear = moved.velocity_linear,
                          !.calculated_motion_velocity_angular = moved.velocity_angular],
              line_force_model |-> [controlled EXCEPT !.rigid_body_motion = overridden]]
        ELSE [fmu |-> f, line_force_model |-> controlled]

\* set_line_force_model_state: the FMU and the line force model it leaves
set_line_force_model_state(f, m, c, time_step) ==
    LET translation == translation_vector(f)
        rotation == rotation_vector(f)
        motion_velocity_linear == motion_velocity_linear_vector(f)
        motion_velocity_angular == motion_velocity_angular_vector(f)
        controlled == IF ~c.is_some \/ f.iterations_completed = 0
                      THEN set_model_control_values_from_input(f, m)
                      ELSE m
        moved == update_rotation_with_velocity_using_finite_difference(
                     update_translation_with_velocity_using_finite_difference(
                         controlled.rigid_body_motion, translation, time_step),
                     rotation, time_step)
        overridden ==
            IF f.parameters.use_motion_velocity
            THEN [moved EXCEPT
                     !.velocity_angular = motion_velocity_angular,
                     !.velocity_linear =
                         IF ~f.parameters.use_motion_velocity_linear_as_freestream
                         THEN motion_velocity_linear
                         ELSE @]
            ELSE moved
    IN  IF f.stormbird_model.is_some
        THEN [fmu |-> [f EXCEPT
                          !.calculated_motion_velocity_linear = moved.velocity_linear,
                          !.calculated_motion_velocity_angular = moved.velocity_angular],
              line_force_model |-> [controlled EXCEPT !.rigid_body_motion = overridden]]
        ELSE [fmu |-> f, line_force_model |-> controlled]

\* BlendermannSuperstructureForces::body_fixed_force: along the wind, with
\* the square of its speed
body_fixed_force(model, apparent_wind_vector) ==
    VecScale(apparent_wind_vector, model.area * Length(apparent_wind_vector))

body_fixed_moment(model, force) == Cross(model.center_of_effort, force)

\* superstructure_force_and_moment, for an FMU with a wind environment
superstructure_force_and_moment(f) ==
    IF f.superstructure_force_model.is_some
    THEN LET model == f.superstructure_force_model.value
             env == f.wind_environment.value
             representative_height == Abs(model.center_of_effort[3])
             true_wind_condition == [velocity |-> f.wind_velocity,
                                     direction_coming_from |-> wind_direction(f)]
             linear_velocity == VecScale(motion_velocity_linear_vector(f), -1)
             apparent_wind_vector ==
                 apparent_wind_velocity_vector_at_location(
                     env, true_wind_condition,
                     VecScale(env.up_direction, representative_height), linear_velocity)
             force == body_fixed_force(model, apparent_wind_vector)
         IN  [force |-> force, moment |-> body_fixed_moment(model, force)]
    ELSE [force |-> ZeroVector, moment |-> ZeroVector]

\* set_zero_force_output that leaves the outputs of the single sails
set_zero_force_output_but_sails(f) ==
    [f EXCEPT !.force = ZeroVector,
              !.moment = ZeroVector,
              !.force_superstructure = ZeroVector,
              !.moment_superstructure = ZeroVector]

\* set_zero_force_output that leaves the forces and moments of the sails
set_zero_force_output_of_totals(f) ==
    [f EXCEPT !.force = ZeroVector,
              !.moment = ZeroVector,
              !.force_superstructure = ZeroVector,
              !.moment_superstructure = ZeroVector]

set_zero_force_output(f) ==
    [f EXCEPT !.force = ZeroVector,
              !.moment = ZeroVector,
              !.force_superstructure = ZeroVector,
              !.moment_superstructure = ZeroVector,
              !.force_sail = [i \in 1..NrSailVariables |-> ZeroVector],
              !.moment_sail = [i \in 1..NrSailVariables |-> ZeroVector]]

\* SimulationResult::integrated_forces_sum, integrated_moments_sum
VectorSum(vectors) ==
    <<SumSeq([k \in 1..Len(vectors) |-> vectors[k][1]]),
      SumSeq([k \in 1..Len(vectors) |-> vectors[k][2]]),
      SumSeq([k \in 1..Len(vectors) |-> vectors[k][3]])>>

set_force_output(f, result) ==
    LET integrated_forces == VectorSum(result.integrated_forces)
        integrated_moments == VectorSum(result.integrated_moments)
        superstructure == superstructure_force_and_moment(f)
    IN  [f EXCEPT
            !.force = VecAdd(integrated_forces, superstructure.force),
            !.moment = VecAdd(integrated_moments, superstructure.moment),
            !.force_superstructure = superstructure.force,
            !.moment_superstructure = superstructure.moment,
            !.force_sail = [i \in 1..NrSailVariables |->
                IF i <= Len(result.integrated_forces)
                THEN result.integrated_forces[i] ELSE ZeroVector],
            !.moment_sail = [i \in 1..NrSailVariables |->
                IF i <= Len(result.integrated_moments)
                THEN result.integrated_moments[i] ELSE ZeroVector]]

\* controller_input, for an FMU with a model and a wind environment
controller_input(f, m, result) ==
    new_from_simulation_result(f.controller_loading, m, result, f.wind_environment.value)

set_controller_measurement_output(f, m, input) ==
    LET measured(i) == i <= fmu_nr_wings(f, m) IN
    [f EXCEPT
        !.velocity_measurement = [i \in 1..NrSailVariables |->
            IF measured(i) THEN input[i].velocity ELSE 0],
        !.controller_section_models_internal_state = [i \in 1..NrSailVariables |->
            IF measured(i) THEN input[i].current_section_model_internal_state ELSE 0],
        !.angle_of_attack_measurement = [i \in 1..NrSailVariables |->
            IF ~measured(i) THEN 0
            ELSE IF f.parameters.angles_in_degrees THEN to_degrees(input[i].angle_of_attack)
            ELSE input[i].angle_of_attack],
        !.apparent_wind_direction_measurement = [i \in 1..NrSailVariables |->
            IF ~measured(i) THEN 0
            ELSE IF f.parameters.angles_in_degrees
                 THEN to_degrees(input[i].apparent_wind_direction)
            ELSE input[i].apparent_wind_direction]]

\* apply_controller: the line force model it leaves
apply_controller(f, m, c, current_time, time_step, input) ==
    IF c.is_some
    THEN LET controller_output == update(c.value, current_time, time_step, input)
         IN  IF controller_output.is_some
             THEN set_model_control_values_from_controller_output(f, m, controller_output.value)
             ELSE m
    ELSE m

\* Simulation::do_step of the lifting-line model: the circulation of the
\* section models in the freestream, and the result of it
simulation_do_step(simulation, m, time, time_step, velocity) ==
    LET angles == angles_of_attack(m, velocity)
        circulation == circulation_strength(m, angles, velocity)
        solver_result == [input_ctrl_points_velocity |-> velocity,
                          circulation_strength |-> circulation,
                          output_ctrl_points_velocity |-> velocity,
                          iterations |-> 1,
                          residual |-> 0]
    IN  [simulation |-> [simulation EXCEPT
                            !.nr_steps = @ + 1,
                            !.previous_circulation_strength = circulation],
         result |-> calculate_simulation_result(
                        m, solver_result, [i \in 1..nr_span_lines(m) |-> ZeroVector], time)]

\* do_step: the FMU and the line force model it leaves, whether the step
\* panics for want of a wind environment, and the freestream it computed,
\* if it came to compute one
\* a freestream velocity that is zero where there is no wind environment
freestream_velocity_or_calm(f, m) ==
    IF f.wind_environment.is_some
    THEN Some(freestream_velocity(f, m))
    ELSE Some([i \in 1..Len(get_freestream_velocity_points(m)) |-> ZeroVector])

\* freestream_velocity with its panic: None where there is no wind
\* environment, where the source panics
freestream_velocity_or_panic(f, m) ==
    IF f.wind_environment.is_some THEN Some(freestream_velocity(f, m)) ELSE None

fmu_do_step(f, m, c, current_time_in, time_step_in) ==
    LET current_time == IF f.time_model_scaling.is_some
                        THEN upscale_time(f.time_model_scaling.value, current_time_in)
                        ELSE current_time_in
        time_step == IF f.time_model_scaling.is_some
                     THEN upscale_time(f.time_model_scaling.value, time_step_in)
                     ELSE time_step_in
        filtered == apply_filters_to_input_if_activated(f)
        waiting_iterations_is_done ==
            filtered.iterations_completed >=
                filtered.parameters.number_of_iterations_before_building_model
        state == set_line_force_model_state(filtered, m, c, time_step)
        outcome == freestream_velocity_or_panic(state.fmu, state.line_force_model)
        velocity == outcome.value
        non_zero_input == \E i \in 1..Len(velocity) : Dot(velocity[i], velocity[i]) > 0
        stepped == simulation_do_step(state.fmu.stormbird_model.value,
                                      state.line_force_model, current_time, time_step,
                                      velocity)
        done(g) == [g EXCEPT !.iterations_completed = @ + 1]
    IN  IF filtered.stormbird_model.is_some /\ waiting_iterations_is_done
        THEN IF ~outcome.is_some
             THEN [panicked |-> TRUE, freestream |-> None, fmu |-> state.fmu,
                   handed_over |-> None, controller_output |-> None,
                   line_force_model |-> state.line_force_model]
             ELSE IF non_zero_input
             THEN Bind(state, LAMBDA set :
                  Bind(stepped, LAMBDA solved :
                  Bind(controller_input(set.fmu, set.line_force_model, solved.result),
                       LAMBDA measured :
                      [panicked |-> FALSE, freestream |-> Some(velocity),
                       handed_over |-> Some(set.line_force_model),
                       controller_output |->
                           IF c.is_some
                           THEN update(c.value, current_time, time_step, measured)
                           ELSE None,
                       fmu |-> done(set_controller_measurement_output(
                                   set_force_output(
                                       [set.fmu EXCEPT
                                           !.stormbird_model = Some(solved.simulation)],
                                       solved.result),
                                   set.line_force_model, measured)),
                       line_force_model |-> apply_controller(
                           set.fmu, set.line_force_model, c, current_time, time_step,
                           measured)])))
             ELSE [panicked |-> FALSE, freestream |-> Some(velocity),
                   handed_over |-> None, controller_output |-> None,
                   fmu |-> done(set_zero_force_output(state.fmu)),
                   line_force_model |-> state.line_force_model]
        ELSE [panicked |-> FALSE, freestream |-> None, fmu |-> done(filtered),
              handed_over |-> None, controller_output |-> None,
              line_force_model |-> m]

----------------------------------------------------------------------------
(* lifting_line/complete_sail_model/mod.rs, line_force_model/input_power.rs *)
(*                                                                         *)
(* A CompleteSailModel is a record of the lifting-line simulation, the     *)
(* wind environment and the controller.  The loadings of                   *)
(* simulate_condition_optimal_controller_loading are numbers of tenths;    *)
(* the ControllerInput takes the whole part, as the set points of the      *)
(* model are whole numbers.                                                *)

\* InputPowerModel::input_power_coefficient
input_power_coefficient(model, section_model_internal_state) ==
    CASE model.kind = "NoPower" -> 0
      [] model.kind = "InternalStateAsPowerCoefficient" ->
             Abs(section_model_internal_state)
      [] model.kind \in {"InterpolateFromInternalStateOnly",
                         "InterpolatePowerCoefficientFromInternalState"} ->
             linear_interpolation(Abs(section_model_internal_state),
                                  model.data.section_models_internal_state_data,
                                  model.data.input_power_coefficient_data)

\* InputPowerModel::input_power_for_strip
input_power_for_strip(model, section_model_internal_state, span_line, chord_len, density, velocity) ==
    LET power_coefficient == input_power_coefficient(model, section_model_internal_state)
    IN  CASE model.kind = "NoPower" -> 0
          [] model.kind = "InterpolateFromInternalStateOnly" ->
                 power_coefficient * chord_len * Length(relative_vector(span_line))
          [] model.kind \in {"InternalStateAsPowerCoefficient",
                             "InterpolatePowerCoefficientFromInternalState"} ->
                 LET dynamic_pressure == (density * Dot(velocity, velocity)) \div 2
                     strip_area == chord_len * Length(relative_vector(span_line))
                 IN  power_coefficient * dynamic_pressure * strip_area * Length(velocity)

\* the input power of a simulation result: per wing, the sum over the
\* wing's strips
input_power(m, velocity) ==
    LET internal_state == section_models_internal_state(m)
        strips == [i \in 1..nr_span_lines(m) |->
            LET wing_index == wing_index_from_global(m, i)
            IN  input_power_for_strip(
                    m.input_power_models[wing_index], internal_state[wing_index],
                    m.span_lines_global[i], chord_length(m.chord_vectors_global[i]),
                    m.density, velocity[i])]
    IN  [w \in 1..nr_wings(m) |->
            SumSeq([k \in 1..Cardinality(WingLines(m, w)) |->
                       strips[m.wing_indices[w].start + k]])]

\* SimulationResult::default
DefaultSimulationResult ==
    [time |-> 0, integrated_forces |-> <<>>, integrated_moments |-> <<>>,
     input_power |-> <<>>]

\* SimulationResult::integrated_forces_sum
integrated_forces_sum(result) == VectorSum(result.integrated_forces)

\* SimulationResult::input_power_sum
input_power_sum(result) == SumSeq(result.input_power)

\* array_generation::linspace: nr_points values from start to end, both
\* included; the start alone for one point
linspace(start, end, nr_points) ==
    [i \in 1..nr_points |->
        IF nr_points = 1 THEN start
        ELSE start + ((i - 1) * (end - start)) \div (nr_points - 1)]

\* WindEnvironment::apparent_wind_direction_from_velocity_and_line_force_model
apparent_wind_direction_from_velocity_and_line_force_model(env, velocity, m) ==
    [i \in 1..nr_span_lines(m) |->
        LET wing_index == wing_index_from_global(m, i)
            first_strip_index == m.wing_indices[wing_index].start
            rotation_axis == relative_vector(m.span_lines_global[first_strip_index + 1])
            chord_local_non_transformed ==
                m.chord_vectors_local_not_rotated[first_strip_index + 1]
            chord_local_transformed ==
                transform_vector(m.rigid_body_motion, chord_local_non_transformed)
        IN  signed_angle_between(
                rotate_z(chord_local_transformed.vector, chord_local_transformed.rotation[3]),
                velocity[i], rotation_axis)]

\* ControllerInput::new_from_velocity, each measurement the mean over the
\* wing's lines
new_from_velocity(loading, m, velocity, wind_environment) ==
    LET velocities_all_sections == [i \in 1..Len(velocity) |-> Length(velocity[i])]
        angles_of_attack_all_sections == angles_of_attack(m, velocity)
        wind_directions ==
            apparent_wind_direction_from_velocity_and_line_force_model(
                wind_environment, velocity, m)
        internal_state == section_models_internal_state(m)
    IN  [i \in 1..nr_wings(m) |->
            [loading |-> loading,
             current_local_wing_angle |-> m.local_wing_angles[i],
             current_section_model_internal_state |-> internal_state[i],
             angle_of_attack |-> WingMean(m, i, angles_of_attack_all_sections),
             velocity |-> WingMean(m, i, velocities_all_sections),
             apparent_wind_direction |-> WingMean(m, i, wind_directions)]]

\* WindEnvironment::apparent_wind_direction_from_condition_and_linear_velocity
apparent_wind_direction_from_condition_and_linear_velocity(env, condition, linear_velocity, height) ==
    LET true_wind_velocity == true_wind_velocity_at_height(env, condition, height)
        true_wind_vector ==
            VecScale(rotate_around_z_axis(env.zero_direction_vector,
                                          condition.direction_coming_from,
                                          env.wind_rotation_axis),
                     true_wind_velocity)
        apparent_velocity_vector == VecAdd(true_wind_vector, linear_velocity)
    IN  signed_angle_between(env.zero_direction_vector, apparent_velocity_vector,
                             env.wind_rotation_axis)

\* CompleteSailModel::freestream_velocity
sail_freestream_velocity(sail, wind_condition, ship_velocity) ==
    LET m == sail.lifting_line_simulation.line_force_model
        env == sail.wind_environment
        freestream_velocity_points == get_freestream_velocity_points(m)
        linear_velocity == VecScale(env.zero_direction_vector, ship_velocity)
        velocity == apparent_wind_velocity_vectors_at_locations(
                        env, wind_condition, freestream_velocity_points, linear_velocity)
        apparent_wind_direction ==
            apparent_wind_direction_from_condition_and_linear_velocity(
                env, wind_condition, linear_velocity, 10)
    IN  apply_inflow_corrections(env, apparent_wind_direction, velocity,
                                 freestream_velocity_points, m.wing_indices)

\* CompleteSailModel::apply_controller_based_on_freestream: the sail model
\* it leaves
apply_controller_based_on_freestream(sail, current_time, time_step, loading, velocity) ==
    LET m == sail.lifting_line_simulation.line_force_model
        input == new_from_velocity(loading \div 10, m, velocity, sail.wind_environment)
        controller_output == update(sail.controller, current_time, time_step, input)
    IN  IF controller_output.is_some
        THEN [sail EXCEPT !.lifting_line_simulation.line_force_model =
                 set_controller_output(m, controller_output.value)]
        ELSE sail

\* Simulation::do_step of the sail model's simulation: the simulation it
\* leaves and the result, with the input power of the step
lifting_line_simulation_do_step(simulation, time, time_step, velocity) ==
    Bind(simulation_do_step(simulation.state, simulation.line_force_model, time,
                            time_step, velocity), LAMBDA stepped :
        [simulation |-> [simulation EXCEPT !.state = stepped.simulation,
                                           !.first_time_step_completed = TRUE],
         result |-> [time |-> stepped.result.time,
                     integrated_forces |-> stepped.result.integrated_forces,
                     integrated_moments |-> stepped.result.integrated_moments,
                     input_power |-> input_power(simulation.line_force_model, velocity)]])

\* CompleteSailModel::do_step: the sail model it leaves and the result
sail_do_step(sail, current_time, time_step, wind_condition, ship_velocity, controller_loading) ==
    Bind(sail_freestream_velocity(sail, wind_condition, ship_velocity), LAMBDA velocity :
    Bind(apply_controller_based_on_freestream(sail, current_time, time_step,
                                              controller_loading, velocity),
         LAMBDA controlled :
    Bind(lifting_line_simulation_do_step(controlled.lifting_line_simulation,
                                         current_time, time_step, velocity),
         LAMBDA stepped :
        [sail |-> [controlled EXCEPT !.lifting_line_simulation = stepped.simulation],
         result |-> stepped.result])))

\* the loop of simulate_condition from time_index on
RECURSIVE simulate_condition_from(_, _, _, _, _, _, _, _)
simulate_condition_from(sail, result, time_index, wind_condition, ship_velocity, controller_loading, time_step, nr_time_steps) ==
    IF time_index >= nr_time_steps THEN [sail |-> sail, result |-> result]
    ELSE Bind(sail_do_step(sail, time_index * time_step, time_step, wind_condition,
                           ship_velocity, controller_loading), LAMBDA stepped :
             simulate_condition_from(stepped.sail, stepped.result, time_index + 1,
                                     wind_condition, ship_velocity, controller_loading,
                                     time_step, nr_time_steps))

\* CompleteSailModel::simulate_condition: the sail model it leaves and the
\* result of the last step
simulate_condition(sail, wind_condition, ship_velocity, controller_loading, time_step, nr_time_steps) ==
    simulate_condition_from(
        [sail EXCEPT !.lifting_line_simulation.first_time_step_completed = FALSE],
        DefaultSimulationResult, 0, wind_condition, ship_velocity, controller_loading,
        time_step, nr_time_steps)

\* the test of a new best loading, taking an equal power for a better one
is_new_best_or_equal(effective_power, max_effective_power) ==
    ~max_effective_power.is_some \/ effective_power >= max_effective_power.value

\* effective_power[i] > max_effective_power, None being Float::NEG_INFINITY
is_new_best(effective_power, max_effective_power) ==
    ~max_effective_power.is_some \/ effective_power > max_effective_power.value

\* the loop of simulate_condition_optimal_controller_loading from i on:
\* the sail model, the loadings simulate_condition was called with, the
\* results and effective powers pushed and the best index so far
RECURSIVE test_loadings_from(_, _, _, _, _, _, _)
test_loadings_from(loop, i, loadings_to_test, wind_condition, ship_velocity, time_step, nr_time_steps) ==
    IF i >= Len(loadings_to_test) THEN loop
    ELSE Bind(simulate_condition(loop.sail, wind_condition, ship_velocity,
                                 loadings_to_test[i + 1], time_step, nr_time_steps),
              LAMBDA run :
         LET thrust == -integrated_forces_sum(run.result)[1]
             delivered_power == thrust * ship_velocity
             power == delivered_power - input_power_sum(run.result)
             better == is_new_best(power, loop.max_effective_power)
         IN  test_loadings_from(
                 [sail |-> run.sail,
                  calls |-> Append(loop.calls, loadings_to_test[i + 1]),
                  results |-> Append(loop.results, run.result),
                  effective_power |-> Append(loop.effective_power, power),
                  max_effective_power |-> IF better THEN Some(power)
                                          ELSE loop.max_effective_power,
                  best_index |-> IF better THEN i ELSE loop.best_index],
                 i + 1, loadings_to_test, wind_condition, ship_velocity, time_step,
                 nr_time_steps))

\* CompleteSailModel::simulate_condition_optimal_controller_loading: the
\* result returned, with what the loop has done
simulate_condition_optimal_controller_loading(sail, wind_condition, ship_velocity, nr_loadings_to_test, time_step, nr_time_steps) ==
    Bind(test_loadings_from(
             [sail |-> sail, calls |-> <<>>, results |-> <<>>, effective_power |-> <<>>,
              max_effective_power |-> None, best_index |-> 0],
             0, linspace(1, 10, nr_loadings_to_test), wind_condition, ship_velocity,
             time_step, nr_time_steps), LAMBDA loop :
        [result |-> loop.results[loop.best_index + 1],
         sail |-> loop.sail,
         calls |-> loop.calls,
         results |-> loop.results,
         effective_power |-> loop.effective_power,
         best_index |-> loop.best_index])

----------------------------------------------------------------------------
(* Controller configurations and inputs the model draws from *)

WindDirectionsData == <<-2, 0, 2>>

Generic == [kind |-> "Generic"]

SpinRatio(circumference, max_rps) ==
    [kind |-> "SpinRatio", circumference |-> circumference, max_rps |-> max_rps]

\* a wing sail steered geometrically, wing angle rate limited
SpGeometricLimited ==
    [apparent_wind_directions_data |-> WindDirectionsData,
     angle_of_attack_data |-> Some(<<4, 0, -4>>),
     section_model_internal_state_data |-> None,
     internal_state_type |-> Generic,
     use_effective_angle_of_attack |-> FALSE,
     max_local_wing_angle_change_rate |-> Some(1),
     max_internal_section_state_change_rate |-> None]

\* a flapped wing steered on the effective angle of attack, flap rate limited
SpEffectiveFlap ==
    [apparent_wind_directions_data |-> WindDirectionsData,
     angle_of_attack_data |-> Some(<<-2, 0, 2>>),
     section_model_internal_state_data |-> Some(<<6, 0, 6>>),
     internal_state_type |-> Generic,
     use_effective_angle_of_attack |-> TRUE,
     max_local_wing_angle_change_rate |-> None,
     max_internal_section_state_change_rate |-> Some(1)]

\* a rotor sail: spin ratio set points, rotation rate limited
SpRotor ==
    [apparent_wind_directions_data |-> WindDirectionsData,
     angle_of_attack_data |-> None,
     section_model_internal_state_data |-> Some(<<-4, 0, 4>>),
     internal_state_type |-> SpinRatio(2, 3),
     use_effective_angle_of_attack |-> FALSE,
     max_local_wing_angle_change_rate |-> Some(1),
     max_internal_section_state_change_rate |-> Some(2)]

\* set points without a limit on the rate of the wing angle: a wing sail
\* steered geometrically, a rotor sail without angle of attack data
SpGeometric == [SpGeometricLimited EXCEPT !.max_local_wing_angle_change_rate = None]

SpRotorFree == [SpRotor EXCEPT !.max_local_wing_angle_change_rate = None]

MaxAngle == 6

SetPointTables ==
    { <<SpGeometricLimited, SpEffectiveFlap>>,
      <<SpRotor, SpGeometricLimited>>,
      <<SpEffectiveFlap, SpRotor>> }

WingInputs ==
    { [loading |-> 1, current_local_wing_angle |-> 0,
       current_section_model_internal_state |-> 0,
       angle_of_attack |-> 0, velocity |-> 2, apparent_wind_direction |-> 1],
      [loading |-> 1, current_local_wing_angle |-> 3,
       current_section_model_internal_state |-> 2,
       angle_of_attack |-> 1, velocity |-> 2, apparent_wind_direction |-> -2],
      [loading |-> 1, current_local_wing_angle |-> -3,
       current_section_model_internal_state |-> 5,
       angle_of_attack |-> 6, velocity |-> 3, apparent_wind_direction |-> 3] }

ControllerInputs(n) == [1..n -> WingInputs]

TimeSteps == {0, 2}

MaxTime == 2

MaxStartTime == 1

MaxStepsBetweenUpdates == 3

MaxTimeStepIndex == 3

\* two wings of three span lines each along z, the second a rotor whose
\* circulation does not vanish at its foot
TwoWings ==
    [wing_indices |-> <<[start |-> 0, end |-> 3], [start |-> 3, end |-> 6]>>,
     span_lines_local |->
        <<[start_point |-> <<0, 0, 0>>, end_point |-> <<0, 0, 2>>],
          [start_point |-> <<0, 0, 2>>, end_point |-> <<0, 0, 4>>],
          [start_point |-> <<0, 0, 4>>, end_point |-> <<0, 0, 6>>],
          [start_point |-> <<8, 0, 0>>, end_point |-> <<8, 0, 2>>],
          [start_point |-> <<8, 0, 2>>, end_point |-> <<8, 0, 4>>],
          [start_point |-> <<8, 0, 4>>, end_point |-> <<8, 0, 6>>]>>,
     chord_vectors_local_not_rotated |->
        <<<<2, 0, 0>>, <<2, 0, 0>>, <<2, 0, 0>>, <<1, 0, 0>>, <<1, 0, 0>>, <<1, 0, 0>>>>,
     section_models |->
        <<[kind |-> "Foil"], [kind |-> "RotatingCylinder", internal_state |-> 0]>>,
     non_zero_circulation_at_ends |-> << <<FALSE, FALSE>>, <<TRUE, FALSE>> >>]

\* the two wings with span lines of unequal lengths
UnevenWings ==
    [TwoWings EXCEPT !.span_lines_local =
        <<[start_point |-> <<0, 0, 0>>, end_point |-> <<0, 0, 2>>],
          [start_point |-> <<0, 0, 2>>, end_point |-> <<0, 0, 6>>],
          [start_point |-> <<0, 0, 6>>, end_point |-> <<0, 0, 8>>],
          [start_point |-> <<8, 0, 0>>, end_point |-> <<8, 0, 4>>],
          [start_point |-> <<8, 0, 4>>, end_point |-> <<8, 0, 6>>],
          [start_point |-> <<8, 0, 6>>, end_point |-> <<8, 0, 8>>]>>]

\* the end conditions of a wing
EndConditions == { <<start, end>> : start \in BOOLEAN, end \in BOOLEAN }

WingAngleVectors == { <<0, 0>>, <<2, -1>>, <<3, 3>> }

InternalStateVectors == { <<0, 0>>, <<1, 4>> }

Translations == { ZeroVector, <<2, 0, 0>>, <<0, 4, -2>> }

Rotations == { ZeroVector, <<0, 0, 2>> }

ControllerOutputs ==
    { <<[local_wing_angle |-> 1, section_model_internal_state |-> 0],
        [local_wing_angle |-> 0, section_model_internal_state |-> 3]>>,
      <<[local_wing_angle |-> -2, section_model_internal_state |-> 5],
        [local_wing_angle |-> 4, section_model_internal_state |-> -1]>> }

NoCall == [time |-> 0, time_step |-> 0, input |-> <<>>, output |-> None, made |-> FALSE]

MaxDirection == 10

MaxCircumference == 2

MaxRps == 2

MaxSpinRatio == 3

MaxVelocity == 3

MaxHeight == 3

MaxWings == 3

MaxWingSize == 3

\* the wing_indices of wings of the given numbers of lines, one after another
WingIndicesOfSizes(sizes) ==
    [k \in 1..Len(sizes) |->
        [start |-> SumSeq(SubSeq(sizes, 1, k - 1)),
         end |-> SumSeq(SubSeq(sizes, 1, k))]]

\* line force models of one to MaxWings wings of one to MaxWingSize lines
WingLayouts ==
    { [wing_indices |-> WingIndicesOfSizes(sizes)] :
        sizes \in UNION { [1..n -> 1..MaxWingSize] : n \in 1..MaxWings } }

\* a velocity at each control point that is not linear along the lines
SampledVelocity(nr_lines, speed) == [i \in 1..nr_lines |-> <<speed * i * i, 2 * i, 0>>]

\* wind environments: the default; a sheared wind over a raised water plane
WindEnvironments ==
    { DefaultWindEnvironment,
      [DefaultWindEnvironment EXCEPT
          !.height_variation_model = Some([reference_height |-> 2]),
          !.water_plane_height = 1] }

\* wind conditions: calm or blowing, from each quarter
WindConditions ==
    [velocity : {0, MaxVelocity}, direction_coming_from : {-2, 0, 2, 4}]

\* locations under, on and over the water planes
Locations == { <<x, 0, z>> : x \in {0, 5}, z \in -MaxHeight..MaxHeight }

MaxLoadings == 3

\* a sail model as built: the two wings with a wing sail that takes no
\* power and a rotor that takes power with its rate of rotation, in the
\* default wind environment
BuiltSailModel ==
    [lifting_line_simulation |->
        [state |-> [nr_steps |-> 0,
                    previous_circulation_strength |-> [i \in 1..6 |-> 0]],
         line_force_model |->
             BuildLineForceModel(TwoWings) @@
                 [density |-> 2,
                  input_power_models |-> <<[kind |-> "NoPower"],
                                           [kind |-> "InternalStateAsPowerCoefficient"]>>],
         first_time_step_completed |-> FALSE],
     wind_environment |-> DefaultWindEnvironment,
     controller |-> build([set_points |-> <<SpGeometricLimited, SpRotor>>,
                           time_steps_between_updates |-> 1,
                           start_time |-> 0])]

\* sail models as built: with the rates of the controller limited; free;
\* the wing sail steered on the effective angle and the rotor at rest
SailModels ==
    { BuiltSailModel,
      [BuiltSailModel EXCEPT
          !.controller = build([set_points |-> <<SpGeometric, SpRotorFree>>,
                                time_steps_between_updates |-> 1,
                                start_time |-> 0])],
      [BuiltSailModel EXCEPT
          !.controller = build([set_points |-> <<SpEffectiveFlap, SpGeometric>>,
                                time_steps_between_updates |-> 1,
                                start_time |-> 0])] }

\* the calls of simulate_condition_optimal_controller_loading on sail
\* models, with what each has done and returned
OptimalLoadingCalls(sails) ==
    { Bind(simulate_condition_optimal_controller_loading(
               sail, wind_condition, ship_velocity, nr_loadings_to_test, 1,
               nr_time_steps), LAMBDA done :
          [function |-> "simulate_condition_optimal_controller_loading",
           sail |-> sail,
           wind_condition |-> wind_condition,
           ship_velocity |-> ship_velocity,
           nr_loadings_to_test |-> nr_loadings_to_test,
           nr_time_steps |-> nr_time_steps,
           calls |-> done.calls,
           results |-> done.results,
           effective_power |-> done.effective_power,
           value |-> done.result,
           made |-> TRUE]) :
        sail \in sails,
        wind_condition \in WindConditions, ship_velocity \in 0..MaxVelocity,
        nr_loadings_to_test \in 1..MaxLoadings, nr_time_steps \in 0..MaxTime }

\* the settings of an actuator line: no correction, half of the difference
\* to the estimate taken in every step
PlainBuilder ==
    [projection_settings |-> [project_viscous_lift |-> TRUE,
                              project_sectional_drag |-> FALSE,
                              realign_sectional_forces |-> FALSE,
                              realign_to_local_velocity_at_each_cell |-> FALSE,
                              projection_function |-> [chord_factor |-> 1,
                                                       thickness_factor |-> 1]],
     solver_settings |-> [damping_factor |-> Ratio(1, 2)],
     sampling_settings |-> [remove_span_velocity |-> FALSE,
                            correction_factor |-> 1,
                            extrapolate_end_velocities |-> FALSE,
                            neglect_span_projection |-> FALSE,
                            span_projection_factor |-> 2],
     start_time |-> 0,
     lifting_line_correction |-> None,
     empirical_circulation_correction |-> None]

ActuatorLineBuilders ==
    { PlainBuilder,
      [PlainBuilder EXCEPT
          !.solver_settings = [damping_factor |-> Ratio(1, 1)],
          !.sampling_settings = [PlainBuilder.sampling_settings EXCEPT
                                    !.remove_span_velocity = TRUE,
                                    !.extrapolate_end_velocities = TRUE,
                                    !.neglect_span_projection = TRUE],
          !.start_time = 1],
      [PlainBuilder EXCEPT
          !.projection_settings = [PlainBuilder.projection_settings EXCEPT
                                      !.project_viscous_lift = FALSE,
                                      !.project_sectional_drag = TRUE,
                                      !.realign_to_local_velocity_at_each_cell = TRUE],
          !.sampling_settings = [PlainBuilder.sampling_settings EXCEPT
                                    !.correction_factor = 2],
          !.lifting_line_correction = Some([viscous_core_length |-> 2])],
      [PlainBuilder EXCEPT
          !.projection_settings = [PlainBuilder.projection_settings EXCEPT
                                      !.project_sectional_drag = TRUE,
                                      !.realign_sectional_forces = TRUE,
                                      !.projection_function = [chord_factor |-> 2,
                                                               thickness_factor |-> 0]],
          !.start_time = MaxStartTime,
          !.empirical_circulation_correction = Some([outer_factor |-> Ratio(1, 2)])] }

\* the controllers of an actuator line over TwoWings, as built
ActuatorLineControllers ==
    { None } \cup
    { Some(build([set_points |-> <<SpGeometricLimited, SpRotor>>,
                  time_steps_between_updates |-> n,
                  start_time |-> 0])) : n \in 1..MaxStepsBetweenUpdates }

\* the velocities the flow solver samples at the six control points: none,
\* a uniform cross flow, a slower cross flow with a flow along the span
VelocityFields ==
    { [i \in 1..6 |-> ZeroVector],
      [i \in 1..6 |-> <<0, 4, 0>>],
      <<<<0, 2, 1>>, <<0, 2, 0>>, <<0, 2, -1>>, <<0, 2, 1>>, <<0, 2, 0>>, <<0, 2, -1>>>> }

NoStep == [made |-> FALSE]

MaxCellSteps == 1

MaxQueries == 2

\* the per-cell query accessors of the actuator line
Accessors ==
    { "get_weighted_velocity_sampling_integral_terms_for_cell",
      "force_to_project_at_cell",
      "line_segments_projection_weights_at_point",
      "summed_projection_weights_at_point",
      "dominating_line_element_index_at_point" }

\* the cells of the flow solver that query: one at the first line of the
\* first wing, one beside the second line of the second wing
Cells ==
    { [line_index |-> 0, velocity |-> <<0, 4, 0>>, cell_center |-> <<0, 0, 1>>,
       cell_volume |-> 1],
      [line_index |-> 4, velocity |-> <<3, 0, 0>>, cell_center |-> <<8, 1, 3>>,
       cell_volume |-> 2] }

MaxWaitingIterations == 1

MaxFmuSteps == 3

\* FmuParameters::default, as far as do_step reads them
DefaultParameters ==
    [number_of_iterations_before_building_model |-> 0,
     angles_in_degrees |-> FALSE,
     use_motion_velocity |-> FALSE,
     use_motion_velocity_linear_as_freestream |-> FALSE,
     motion_velocity_in_body_fixed_frame |-> FALSE]

\* an FMU as exit_initialization_mode leaves it: no model or a model that
\* has not stepped, no input set, no output written
PlainFmu ==
    [parameters |-> DefaultParameters,
     stormbird_model |-> Some([nr_steps |-> 0,
                               previous_circulation_strength |-> [i \in 1..6 |-> 0]]),
     wind_environment |-> Some(DefaultWindEnvironment),
     input_filters |-> None,
     time_model_scaling |-> None,
     superstructure_force_model |-> None,
     iterations_completed |-> 0,
     wind_velocity |-> 0,
     wind_direction_coming_from |-> 0,
     translation |-> ZeroVector,
     rotation |-> ZeroVector,
     motion_velocity_linear |-> ZeroVector,
     motion_velocity_angular |-> ZeroVector,
     local_wing_angle |-> [i \in 1..NrSailVariables |-> 0],
     section_models_internal_state |-> [i \in 1..NrSailVariables |-> 0],
     controller_loading |-> 1,
     force |-> ZeroVector,
     moment |-> ZeroVector,
     force_superstructure |-> ZeroVector,
     moment_superstructure |-> ZeroVector,
     force_sail |-> [i \in 1..NrSailVariables |-> ZeroVector],
     moment_sail |-> [i \in 1..NrSailVariables |-> ZeroVector],
     velocity_measurement |-> [i \in 1..NrSailVariables |-> 0],
     controller_section_models_internal_state |-> [i \in 1..NrSailVariables |-> 0],
     angle_of_attack_measurement |-> [i \in 1..NrSailVariables |-> 0],
     apparent_wind_direction_measurement |-> [i \in 1..NrSailVariables |-> 0],
     calculated_motion_velocity_linear |-> ZeroVector,
     calculated_motion_velocity_angular |-> ZeroVector]

Superstructure == [area |-> 3, center_of_effort |-> <<0, 0, 2>>]

\* the FMUs of the model: plain; waiting, with a superstructure and the
\* ship's motion as freestream; without a wind environment; without a model;
\* filtered and scaled inputs in degrees under a sheared, corrected wind
FmuSetups ==
    { PlainFmu,
      [PlainFmu EXCEPT
          !.parameters = [DefaultParameters EXCEPT
              !.number_of_iterations_before_building_model = MaxWaitingIterations,
              !.use_motion_velocity = TRUE,
              !.use_motion_velocity_linear_as_freestream = TRUE],
          !.superstructure_force_model = Some(Superstructure)],
      [PlainFmu EXCEPT !.wind_environment = None],
      [PlainFmu EXCEPT !.stormbird_model = None],
      [PlainFmu EXCEPT
          !.parameters = [DefaultParameters EXCEPT
              !.angles_in_degrees = TRUE,
              !.use_motion_velocity = TRUE,
              !.motion_velocity_in_body_fixed_frame = TRUE],
          !.wind_environment = Some([DefaultWindEnvironment EXCEPT
              !.height_variation_model = Some([reference_height |-> 2]),
              !.inflow_corrections = Some([magnitude_factor |-> <<1, 2>>])]),
          !.input_filters = Some([window |-> 2, translation |-> <<>>, rotation |-> <<>>,
                                  motion_velocity_linear |-> <<>>,
                                  motion_velocity_angular |-> <<>>]),
          !.time_model_scaling = Some([scale |-> 4]),
          !.superstructure_force_model = Some(Superstructure)] }

\* the controllers of an FMU over TwoWings
FmuControllers ==
    { None,
      Some(build([set_points |-> <<SpGeometricLimited, SpRotor>>,
                  time_steps_between_updates |-> 2,
                  start_time |-> 0])) }

\* the inputs a co-simulation master sets: calm; wind from ahead; wind from
\* the side on a displaced ship with the wings turned; a ship that moves and
\* has turned in calm air
FmuInputs ==
    { [wind_velocity |-> 0, wind_direction_coming_from |-> 0,
       translation |-> ZeroVector, rotation |-> ZeroVector,
       motion_velocity_linear |-> ZeroVector, motion_velocity_angular |-> ZeroVector,
       local_wing_angle |-> 0, section_models_internal_state |-> 0],
      [wind_velocity |-> 3, wind_direction_coming_from |-> 0,
       translation |-> ZeroVector, rotation |-> ZeroVector,
       motion_velocity_linear |-> ZeroVector, motion_velocity_angular |-> ZeroVector,
       local_wing_angle |-> 1, section_models_internal_state |-> 2],
      [wind_velocity |-> 2, wind_direction_coming_from |-> 6,
       translation |-> <<2, 0, 0>>, rotation |-> ZeroVector,
       motion_velocity_linear |-> ZeroVector, motion_velocity_angular |-> ZeroVector,
       local_wing_angle |-> -1, section_models_internal_state |-> 1],
      [wind_velocity |-> 0, wind_direction_coming_from |-> 0,
       translation |-> <<4, 0, 0>>, rotation |-> <<0, 0, 90>>,
       motion_velocity_linear |-> <<2, 0, 0>>, motion_velocity_angular |-> ZeroVector,
       local_wing_angle |-> 0, section_models_internal_state |-> 0] }

----------------------------------------------------------------------------
(* The controller on its own: a Controller value, whose fields are all     *)
(* public, and calls of Controller::update at non-decreasing times.        *)

\* no actuator line, no FMU
Absent == [present |-> FALSE]

IdleAL == actuator_line = Absent /\ al_trace = Absent

IdleFmu == fmu = Absent /\ fmu_trace = Absent

\* a controller nobody calls
IdleCtrl ==
    /\ controller = None
    /\ ctrl_phase = "inactive"
    /\ ctrl_call = NoCall

InitCtrl ==
    /\ \E c \in [set_points : SetPointTables,
                  time_steps_between_updates : 1..MaxStepsBetweenUpdates,
                  start_time : 0..MaxStartTime,
                  time_step_index : 0..MaxTimeStepIndex] :
           controller = Some(c)
    /\ ctrl_phase = "inactive"
    /\ ctrl_call = NoCall
    /\ line_force_model = BuildLineForceModel(TwoWings)
    /\ IdleAL
    /\ IdleFmu

UpdateCall ==
    \E time \in 0..MaxTime, time_step \in TimeSteps,
       input \in ControllerInputs(Len(controller.value.set_points)) :
        /\ time >= ctrl_call.time
        /\ ctrl_call' = [time |-> time, time_step |-> time_step, input |-> input,
                         output |-> update(controller.value, time, time_step, input),
                         made |-> TRUE]
        /\ ctrl_phase' = IF time < controller.value.start_time THEN "inactive"
                         ELSE IF ctrl_phase = "inactive" THEN "first"
                         ELSE "active"
        /\ UNCHANGED <<controller, line_force_model, alVars, fmuVars>>

NextCtrl == UpdateCall

SpecCtrl == InitCtrl /\ [][NextCtrl]_vars

----------------------------------------------------------------------------
(* The line force model on its own: its mutators, called in any order *)

InitLFM ==
    /\ line_force_model = BuildLineForceModel(TwoWings)
    /\ IdleCtrl
    /\ IdleAL
    /\ IdleFmu

SetLocalWingAngles ==
    \E local_wing_angles \in WingAngleVectors :
        /\ line_force_model' = set_local_wing_angles(line_force_model, local_wing_angles)
        /\ UNCHANGED <<ctrlVars, alVars, fmuVars>>

ResetLocalWingAngles ==
    /\ line_force_model' = reset_local_wing_angles(line_force_model)
    /\ UNCHANGED <<ctrlVars, alVars, fmuVars>>

SetSectionModelsInternalState ==
    \E internal_state \in InternalStateVectors :
        /\ line_force_model' = set_section_models_internal_state(line_force_model, internal_state)
        /\ UNCHANGED <<ctrlVars, alVars, fmuVars>>

SetControllerOutput ==
    \E controller_output \in ControllerOutputs :
        /\ line_force_model' = set_controller_output(line_force_model, controller_output)
        /\ UNCHANGED <<ctrlVars, alVars, fmuVars>>

SetTranslationOnly ==
    \E translation \in Translations :
        /\ line_force_model' = set_translation_only(line_force_model, translation)
        /\ UNCHANGED <<ctrlVars, alVars, fmuVars>>

SetRotationOnly ==
    \E rotation \in Rotations :
        /\ line_force_model' = set_rotation_only(line_force_model, rotation)
        /\ UNCHANGED <<ctrlVars, alVars, fmuVars>>

SetTranslationAndRotation ==
    \E translation \in Translations, rotation \in Rotations :
        /\ line_force_model' = set_translation_and_rotation(line_force_model, translation, rotation)
        /\ UNCHANGED <<ctrlVars, alVars, fmuVars>>

SetTranslationAndRotationWithFiniteDifference ==
    \E time_step \in TimeSteps, translation \in Translations, rotation \in Rotations :
        /\ line_force_model' =
               set_translation_and_rotation_with_finite_difference_for_the_velocity(
                   line_force_model, time_step, translation, rotation)
        /\ UNCHANGED <<ctrlVars, alVars, fmuVars>>

NextLFM ==
    \/ SetLocalWingAngles
    \/ ResetLocalWingAngles
    \/ SetSectionModelsInternalState
    \/ SetControllerOutput
    \/ SetTranslationOnly
    \/ SetRotationOnly
    \/ SetTranslationAndRotation
    \/ SetTranslationAndRotationWithFiniteDifference

SpecLFM == InitLFM /\ [][NextLFM]_vars

----------------------------------------------------------------------------
(* The actuator line, driven by a flow solver: in every time step the      *)
(* solver may write the sampled velocities, may call update_controller,    *)
(* and calls do_step, which ends the time step.  A panic ends the run.     *)

InitAL ==
    /\ line_force_model = BuildLineForceModel(TwoWings)
    /\ controller \in ActuatorLineControllers
    /\ ctrl_phase = "inactive"
    /\ ctrl_call = NoCall
    /\ \E builder \in ActuatorLineBuilders :
           actuator_line = build_actuator_line(builder, nr_span_lines(line_force_model))
    /\ al_trace = [time |-> 0, step |-> NoStep, controller_called |-> FALSE,
                   returns |-> <<>>, panicked |-> FALSE]
    /\ IdleFmu

SampleVelocity ==
    \E velocity \in VelocityFields :
        /\ ~al_trace.panicked
        /\ velocity # actuator_line.ctrl_points_velocity
        /\ actuator_line' = [actuator_line EXCEPT !.ctrl_points_velocity = velocity]
        /\ UNCHANGED <<line_force_model, ctrlVars, al_trace, fmuVars>>

DoStep ==
    LET time == al_trace.time
        solved == time >= actuator_line.start_time
    IN  /\ ~al_trace.panicked
        /\ actuator_line.current_iteration < MaxIterations
        /\ actuator_line' = do_step(actuator_line, line_force_model, time, 1)
        /\ al_trace' = [al_trace EXCEPT
               !.time = time + 1,
               !.controller_called = FALSE,
               !.step = [made |-> TRUE,
                         time |-> time,
                         ctrl_points_velocity |-> actuator_line.ctrl_points_velocity,
                         line_force_model |-> line_force_model,
                         stored_result |-> actuator_line.simulation_result,
                         solver_result |->
                             IF solved
                             THEN Some(solve(actuator_line, line_force_model, time, 1))
                             ELSE None,
                         estimated |->
                             IF solved
                             THEN new_estimated_circulation_strength(
                                      actuator_line, line_force_model, time)
                             ELSE <<>>]]
        /\ UNCHANGED <<line_force_model, ctrlVars, fmuVars>>

UpdateController ==
    LET time == al_trace.time
        result == update_controller(actuator_line, line_force_model, controller, time, 1)
    IN  /\ ~al_trace.panicked
        /\ ~al_trace.controller_called
        /\ line_force_model' = result.line_force_model
        /\ al_trace' = [al_trace EXCEPT
               !.controller_called = TRUE,
               !.panicked = result.panicked,
               !.returns = IF result.panicked THEN @
                           ELSE Append(@, [time |-> time,
                                           need_update |-> result.need_update,
                                           left_alone |-> result.line_force_model =
                                                          line_force_model])]
        /\ UNCHANGED <<ctrlVars, actuator_line, fmuVars>>

NextAL ==
    \/ SampleVelocity
    \/ DoStep
    \/ UpdateController

SpecAL == InitAL /\ [][NextAL]_vars

----------------------------------------------------------------------------
(* The actuator line between the steps of a flow solver whose cells query  *)
(* it: a step samples the velocity and calls do_step; the queries made    *)
(* since the last step are kept with the values they returned.            *)

\* the value an accessor returns to a cell
accessor_value(al, m, accessor, cell) ==
    CASE accessor = "get_weighted_velocity_sampling_integral_terms_for_cell" ->
             get_weighted_velocity_sampling_integral_terms_for_cell(
                 al, m, cell.line_index, cell.velocity, cell.cell_center, cell.cell_volume)
      [] accessor = "force_to_project_at_cell" ->
             force_to_project_at_cell(al, m, cell.line_index, cell.velocity)
      [] accessor = "line_segments_projection_weights_at_point" ->
             line_segments_projection_weights_at_point(al, m, cell.cell_center)
      [] accessor = "summed_projection_weights_at_point" ->
             summed_projection_weights_at_point(al, m, cell.cell_center)
      [] accessor = "dominating_line_element_index_at_point" ->
             dominating_line_element_index_at_point(al, m, cell.cell_center)

InitCells ==
    /\ line_force_model = BuildLineForceModel(TwoWings)
    /\ IdleCtrl
    /\ \E builder \in ActuatorLineBuilders :
           actuator_line = build_actuator_line(builder, nr_span_lines(line_force_model))
    /\ al_trace = [steps |-> 0, queries |-> <<>>]
    /\ IdleFmu

CellsStep ==
    \E velocity \in VelocityFields :
        /\ al_trace.steps < MaxCellSteps
        /\ actuator_line' = do_step([actuator_line EXCEPT !.ctrl_points_velocity = velocity],
                                    line_force_model, MaxStartTime + al_trace.steps, 1)
        /\ al_trace' = [steps |-> al_trace.steps + 1, queries |-> <<>>]
        /\ UNCHANGED <<line_force_model, ctrlVars, fmuVars>>

QueryCell ==
    \E accessor \in Accessors, cell \in Cells :
        LET left == shared_borrow(actuator_line, line_force_model) IN
        /\ Len(al_trace.queries) < MaxQueries
        /\ actuator_line' = left.actuator_line
        /\ line_force_model' = left.line_force_model
        /\ al_trace' = [al_trace EXCEPT
               !.queries = Append(@, [accessor |-> accessor,
                                      cell |-> cell,
                                      before |-> [actuator_line |-> actuator_line,
                                                  line_force_model |-> line_force_model],
                                      value |-> accessor_value(
                                                    actuator_line, line_force_model,
                                                    accessor, cell)])]
        /\ UNCHANGED <<ctrlVars, fmuVars>>

NextCells ==
    \/ CellsStep
    \/ QueryCell

SpecCells == InitCells /\ [][NextCells]_vars

----------------------------------------------------------------------------
(* The functions without state, each called on inputs of its own: a        *)
(* behaviour is one call, kept in ctrl_call with the value it returned.    *)

InitFunctions ==
    /\ IdleCtrl
    /\ line_force_model = Absent
    /\ IdleAL
    /\ IdleFmu

CallGetRpsFromSpinRatio ==
    \E circumference \in 1..MaxCircumference, max_rps \in 0..MaxRps,
       spin_ratio \in -MaxSpinRatio..MaxSpinRatio, velocity \in -MaxVelocity..MaxVelocity :
        /\ ~ctrl_call.made
        /\ ctrl_call' = [function |-> "get_rps_from_spin_ratio",
                         conversion |-> SpinRatio(circumference, max_rps),
                         spin_ratio |-> spin_ratio,
                         velocity |-> velocity,
                         value |-> get_rps_from_spin_ratio(
                                       SpinRatio(circumference, max_rps), spin_ratio, velocity),
                         made |-> TRUE]
        /\ UNCHANGED <<line_force_model, controller, ctrl_phase, alVars, fmuVars>>

CallWindDirection ==
    \E angle \in -MaxDirection..MaxDirection, angles_in_degrees \in BOOLEAN :
        LET f == [PlainFmu EXCEPT
                     !.parameters.angles_in_degrees = angles_in_degrees,
                     !.wind_direction_coming_from =
                         IF angles_in_degrees THEN to_degrees(angle) ELSE angle]
        IN  /\ ~ctrl_call.made
            /\ ctrl_call' = [function |-> "wind_direction",
                             angles_in_degrees |-> angles_in_degrees,
                             wind_direction_coming_from |-> f.wind_direction_coming_from,
                             angle |-> angle,
                             value |-> wind_direction(f),
                             made |-> TRUE]
            /\ UNCHANGED <<line_force_model, controller, ctrl_phase, alVars, fmuVars>>

CallTrueWind ==
    \E env \in WindEnvironments, condition \in WindConditions, location \in Locations :
        /\ ~ctrl_call.made
        /\ ctrl_call' = [function |-> "true_wind_velocity_vector_at_location",
                         env |-> env,
                         condition |-> condition,
                         location |-> location,
                         height |-> location_height(env, location),
                         evaluations |-> height_variation_evaluations(
                                             env, location_height(env, location)),
                         speed |-> true_wind_velocity_at_location(env, condition, location),
                         value |-> true_wind_velocity_vector_at_location(
                                       env, condition, location),
                         made |-> TRUE]
        /\ UNCHANGED <<line_force_model, controller, ctrl_phase, alVars, fmuVars>>

CallExtrapolateEndVelocities ==
    \E m \in WingLayouts, speed \in 1..2 :
        LET nr_lines == m.wing_indices[nr_wings(m)].end
            velocity == SampledVelocity(nr_lines, speed)
            panics == extrapolation_panics(m, nr_lines)
        IN  /\ ~ctrl_call.made
            /\ ctrl_call' = [function |-> "extrapolate_end_velocities",
                             wing_indices |-> m.wing_indices,
                             velocity |-> velocity,
                             panicked |-> panics,
                             value |-> IF panics THEN None
                                       ELSE Some(extrapolate_end_velocities(m, 1, velocity)),
                             made |-> TRUE]
            /\ UNCHANGED <<line_force_model, controller, ctrl_phase, alVars, fmuVars>>

\* the calls of update_ctrl_point_spanwise_distance that building a model
\* makes, for the two geometries and every end condition of the two wings
SpanwiseDistanceCalls ==
    { LET m == BuildLineForceModel(
                   [geometry EXCEPT !.non_zero_circulation_at_ends = <<first, second>>])
      IN  [function |-> "update_ctrl_point_spanwise_distance",
           wing_indices |-> m.wing_indices,
           span_lines_local |-> m.span_lines_local,
           non_zero_circulation_at_ends |-> m.non_zero_circulation_at_ends,
           non_dimensional |-> m.ctrl_point_spanwise_distance_non_dimensional,
           value |-> m.ctrl_point_spanwise_distance_circulation_model,
           made |-> TRUE] :
        geometry \in {TwoWings, UnevenWings}, first \in EndConditions,
        second \in EndConditions }

CallSimulateConditionOptimalControllerLoading ==
    /\ ~ctrl_call.made
    /\ \E call \in OptimalLoadingCalls(SailModels) :
           /\ ctrl_call' = call
           /\ UNCHANGED <<line_force_model, controller, ctrl_phase, alVars, fmuVars>>

CallUpdateCtrlPointSpanwiseDistance ==
    \E call \in SpanwiseDistanceCalls :
        /\ ~ctrl_call.made
        /\ ctrl_call' = call
        /\ UNCHANGED <<line_force_model, controller, ctrl_phase, alVars, fmuVars>>

CallGetNewOutput ==
    \E sp \in {SpGeometric, SpRotorFree, SpEffectiveFlap, SpGeometricLimited},
       loading \in 0..1, apparent_wind_direction \in -MaxAngle..MaxAngle,
       angle_of_attack \in -MaxAngle..MaxAngle :
        LET input == [loading |-> loading, current_local_wing_angle |-> 0,
                      current_section_model_internal_state |-> 0,
                      angle_of_attack |-> angle_of_attack, velocity |-> 2,
                      apparent_wind_direction |-> apparent_wind_direction]
        IN  /\ ~ctrl_call.made
            /\ ctrl_call' = [function |-> "get_new_output",
                             set_point |-> sp,
                             input |-> input,
                             angle_error |-> IF sp.angle_of_attack_data.is_some
                                             THEN Some(angle_error_effective(sp, input))
                                             ELSE None,
                             effective |-> get_local_wing_angle_effective(sp, input),
                             value |-> get_new_output(sp, input, 1),
                             made |-> TRUE]
            /\ UNCHANGED <<line_force_model, controller, ctrl_phase, alVars, fmuVars>>

NextFunctions ==
    \/ CallSimulateConditionOptimalControllerLoading
    \/ CallGetRpsFromSpinRatio
    \/ CallGetNewOutput
    \/ CallUpdateCtrlPointSpanwiseDistance
    \/ CallExtrapolateEndVelocities
    \/ CallWindDirection
    \/ CallTrueWind

SpecFunctions == InitFunctions /\ [][NextFunctions]_vars

----------------------------------------------------------------------------
(* The FMU, driven by a co-simulation master that sets the inputs and      *)
(* calls do_step with the time of the step.  A panic ends the run.         *)

InitFmu ==
    /\ line_force_model = BuildLineForceModel(TwoWings)
    /\ controller \in FmuControllers
    /\ ctrl_phase = "inactive"
    /\ ctrl_call = NoCall
    /\ IdleAL
    /\ fmu \in FmuSetups
    /\ fmu_trace = [step |-> NoStep, panicked |-> FALSE]

FmuSetInputs ==
    \E input \in FmuInputs :
        LET set == [fmu EXCEPT
                !.wind_velocity = input.wind_velocity,
                !.wind_direction_coming_from = input.wind_direction_coming_from,
                !.translation = input.translation,
                !.rotation = input.rotation,
                !.motion_velocity_linear = input.motion_velocity_linear,
                !.motion_velocity_angular = input.motion_velocity_angular,
                !.local_wing_angle =
                    [i \in 1..NrSailVariables |-> input.local_wing_angle],
                !.section_models_internal_state =
                    [i \in 1..NrSailVariables |-> input.section_models_internal_state]]
        IN  /\ ~fmu_trace.panicked
            /\ set # fmu
            /\ fmu' = set
            /\ UNCHANGED <<line_force_model, ctrlVars, alVars, fmu_trace>>

FmuDoStep ==
    LET step == fmu_do_step(fmu, line_force_model, controller, fmu.iterations_completed, 1)
    IN  /\ ~fmu_trace.panicked
        /\ fmu.iterations_completed < MaxFmuSteps
        /\ fmu' = step.fmu
        /\ line_force_model' = step.line_force_model
        /\ fmu_trace' = [step |-> [made |-> TRUE,
                                   before |-> fmu,
                                   handed_over |-> step.handed_over,
                                   controller_output |-> step.controller_output,
                                   freestream |-> step.freestream],
                         panicked |-> step.panicked]
        /\ UNCHANGED <<ctrlVars, alVars>>

NextFmu ==
    \/ FmuSetInputs
    \/ FmuDoStep

SpecFmu == InitFmu /\ [][NextFmu]_vars

----------------------------------------------------------------------------
(* Claims about the functions without state, checked under SpecFunctions *)

Called(function) == ctrl_call.made /\ ctrl_call.function = function

\* C12: for an input that is, in radians, an angle from -2 pi to 2 pi,
\* wind_direction returns an angle above -pi and at most pi that differs
\* from the input by a whole number of turns.
C12_WindDirectionInHalfOpenInterval ==
    (Called("wind_direction") /\ Abs(ctrl_call.angle) <= TAU) =>
        /\ -PI < ctrl_call.value
        /\ ctrl_call.value <= PI
        /\ (ctrl_call.value - ctrl_call.angle) % TAU = 0

\* C13: the height true_wind_velocity_at_location passes on is the height of
\* the location over the water plane, or zero under it; the height
\* variation model is evaluated at heights above zero only; at or under the
\* water plane the speed is zero with a height variation model and the
\* speed of the condition without one.
C13_HeightClampedAtWaterPlane ==
    Called("true_wind_velocity_vector_at_location") =>
        LET env == ctrl_call.env
            over_water == ctrl_call.location[3] * env.up_direction[3] -
                              env.water_plane_height
        IN  /\ ctrl_call.height = IF over_water > 0 THEN over_water ELSE 0
            /\ \A k \in 1..Len(ctrl_call.evaluations) : ctrl_call.evaluations[k] > 0
            /\ over_water <= 0 =>
                   ctrl_call.speed = IF env.height_variation_model.is_some
                                     THEN 0 ELSE ctrl_call.condition.velocity

\* wind over a location under the water plane, with a height variation
\* model that is left alone
C13_Witness ==
    /\ Called("true_wind_velocity_vector_at_location")
    /\ ctrl_call.env.height_variation_model.is_some
    /\ ctrl_call.location[3] < ctrl_call.env.water_plane_height
    /\ ctrl_call.condition.velocity > 0
    /\ ctrl_call.height = 0
    /\ ctrl_call.evaluations = <<>>
    /\ ctrl_call.speed = 0

\* C19: for every wing the extrapolation reads control points of that wing
\* only, does not panic, and leaves at the wing's first control point twice
\* the velocity at its second less that at its third, at its last twice the
\* velocity at its second to last less that at its third to last.
C19_ExtrapolationWithinWing ==
    Called("extrapolate_end_velocities") =>
        /\ ~ctrl_call.panicked
        /\ \A wing_index \in 1..Len(ctrl_call.wing_indices) :
               LET wing == ctrl_call.wing_indices[wing_index]
                   v == ctrl_call.velocity
               IN  /\ \A index \in extrapolation_indices(ctrl_call, wing_index).read :
                          wing.start <= index /\ index < wing.end
                   /\ ctrl_call.value.value[wing.start + 1] =
                          VecSub(VecScale(v[wing.start + 2], 2), v[wing.start + 3])
                   /\ ctrl_call.value.value[wing.end] =
                          VecSub(VecScale(v[wing.end - 1], 2), v[wing.end - 2])

\* C21: the non-dimensional spanwise coordinate s of every control point
\* lies in [-1/2, 1/2]; the coordinate of the circulation model is s for a
\* wing with both ends or no end free, (s + 1/2) / 2 for a free start,
\* (s - 1/2) / 2 for a free end, and lies in [-1/2, 1/2].
C21_CirculationModelCoordinate ==
    Called("update_ctrl_point_spanwise_distance") =>
        \A index \in 1..Len(ctrl_call.value) :
            LET s == ctrl_call.non_dimensional[index]
                coordinate == ctrl_call.value[index]
                ends == ctrl_call.non_zero_circulation_at_ends[
                            wing_index_from_global(ctrl_call, index)]
                shift == CASE ends = <<TRUE, FALSE>> -> 1
                           [] ends = <<FALSE, TRUE>> -> -1
                           [] OTHER -> 0
            IN  /\ s.den > 0 /\ coordinate.den > 0
                /\ 2 * Abs(s.num) <= s.den
                /\ IF shift = 0
                   THEN coordinate.num * s.den = s.num * coordinate.den
                   ELSE coordinate.num * 4 * s.den =
                            (2 * s.num + shift * s.den) * coordinate.den
                /\ 2 * Abs(coordinate.num) <= coordinate.den

\* wings with a free start and a free end, of uneven lines, where the
\* coordinate of the circulation model is not s
C21_Witness ==
    /\ Called("update_ctrl_point_spanwise_distance")
    /\ ctrl_call.non_zero_circulation_at_ends = << <<TRUE, FALSE>>, <<FALSE, TRUE>> >>
    /\ ctrl_call.span_lines_local = UnevenWings.span_lines_local
    /\ ctrl_call.non_dimensional[1] = Ratio(-6, 16)
    /\ ctrl_call.value[1] = Ratio(4, 64)
    /\ ctrl_call.non_dimensional[6] = Ratio(6, 16)
    /\ ctrl_call.value[6] = Ratio(-4, 64)
    /\ \A index \in 1..Len(ctrl_call.value) :
           ctrl_call.value[index] # ctrl_call.non_dimensional[index]

\* C22: in geometric mode without a limit on the rate of the wing angle,
\* the wing angle of get_new_output is the apparent wind direction less
\* the loading times the set point interpolated from the table of the wing
\* at that direction, and zero for a wing without angle of attack data.
C22_GeometricWingAngle ==
    (/\ Called("get_new_output")
     /\ ~ctrl_call.set_point.use_effective_angle_of_attack
     /\ ~ctrl_call.set_point.max_local_wing_angle_change_rate.is_some) =>
        LET sp == ctrl_call.set_point
            direction == ctrl_call.input.apparent_wind_direction
        IN  ctrl_call.value.local_wing_angle =
                IF sp.angle_of_attack_data.is_some
                THEN direction -
                         ctrl_call.input.loading *
                             linear_interpolation(direction,
                                                  sp.apparent_wind_directions_data,
                                                  sp.angle_of_attack_data.value)
                ELSE 0

\* a loaded wing between two directions of its table, turned away from the
\* wind by its set point
C22_Witness ==
    /\ Called("get_new_output")
    /\ ctrl_call.set_point = SpGeometric
    /\ ctrl_call.input.loading = 1
    /\ ctrl_call.input.apparent_wind_direction = 1
    /\ ctrl_call.value.local_wing_angle = 3

\* C23: in effective mode, with angle of attack data, the angular error
\* and the wing angle of get_local_wing_angle_effective are above -pi and
\* at most pi.
C23_EffectiveAngleHalfOpen ==
    (/\ Called("get_new_output")
     /\ ctrl_call.set_point.use_effective_angle_of_attack
     /\ ctrl_call.angle_error.is_some) =>
        /\ -PI < ctrl_call.angle_error.value /\ ctrl_call.angle_error.value <= PI
        /\ -PI < ctrl_call.effective /\ ctrl_call.effective <= PI

\* thrust * ship_velocity - input power of a simulation result, the thrust
\* being the force against x
EffectivePower(result, ship_velocity) ==
    -VectorSum(result.integrated_forces)[1] * ship_velocity - SumSeq(result.input_power)

C30_WitnessEqual ==
    /\ Called("simulate_condition_optimal_controller_loading")
    /\ ctrl_call.nr_loadings_to_test = 3
    /\ EffectivePower(ctrl_call.results[1], ctrl_call.ship_velocity) =
           EffectivePower(ctrl_call.results[3], ctrl_call.ship_velocity)
    /\ ctrl_call.results[1] # ctrl_call.results[3]
    /\ ctrl_call.value = ctrl_call.results[1]

\* C15: the rotation rate is never above max_rps in magnitude; it is the
\* quotient of spin_ratio * velocity by the circumference when that is
\* within max_rps, and max_rps with the sign of the quotient otherwise.
C15_RpsBoundedByMaxRps ==
    Called("get_rps_from_spin_ratio") =>
        LET circumference == ctrl_call.conversion.circumference
            max_rps == ctrl_call.conversion.max_rps
            product == ctrl_call.spin_ratio * ctrl_call.velocity
            within == Abs(product) < (max_rps + 1) * circumference
        IN  /\ Abs(ctrl_call.value) <= max_rps
            /\ within =>
                   /\ Abs(ctrl_call.value) * circumference <= Abs(product)
                   /\ Abs(product) < (Abs(ctrl_call.value) + 1) * circumference
                   /\ ctrl_call.value # 0 => Signum(ctrl_call.value) = Signum(product)
            /\ ~within => ctrl_call.value = max_rps * Signum(product)

\* a raw rate against the velocity that is cut to -max_rps
C15_Witness ==
    /\ Called("get_rps_from_spin_ratio")
    /\ ctrl_call.conversion.max_rps > 0
    /\ ctrl_call.spin_ratio > 0
    /\ ctrl_call.velocity < 0
    /\ -(ctrl_call.spin_ratio * ctrl_call.velocity) >
           (ctrl_call.conversion.max_rps + 1) * ctrl_call.conversion.circumference
    /\ ctrl_call.value = -ctrl_call.conversion.max_rps

\* C16: in the default wind environment, over the water plane, a wind that
\* blows has a positive x component when it comes from 0, a negative y
\* component from a quarter turn, a positive y component from minus a
\* quarter turn and a negative x component from half a turn.
C16_ComingFromConvention ==
    (/\ Called("true_wind_velocity_vector_at_location")
     /\ ctrl_call.env = DefaultWindEnvironment
     /\ ctrl_call.location[3] > 0
     /\ ctrl_call.condition.velocity > 0) =>
        /\ ctrl_call.condition.direction_coming_from = 0 => ctrl_call.value[1] > 0
        /\ ctrl_call.condition.direction_coming_from = 2 => ctrl_call.value[2] < 0
        /\ ctrl_call.condition.direction_coming_from = -2 => ctrl_call.value[2] > 0
        /\ ctrl_call.condition.direction_coming_from = PI => ctrl_call.value[1] < 0

\* a wind from a quarter turn in the default environment, blowing along -y
C16_Witness ==
    /\ Called("true_wind_velocity_vector_at_location")
    /\ ctrl_call.env = DefaultWindEnvironment
    /\ ctrl_call.location[3] > 0
    /\ ctrl_call.condition = [velocity |-> MaxVelocity, direction_coming_from |-> 2]
    /\ ctrl_call.value = <<0, -MaxVelocity, 0>>

----------------------------------------------------------------------------
(* Claims about the FMU, checked under SpecFmu *)

\* every force and moment output of the FMU is zero
ZeroForceOutput(f) ==
    /\ f.force = ZeroVector
    /\ f.moment = ZeroVector
    /\ f.force_superstructure = ZeroVector
    /\ f.moment_superstructure = ZeroVector
    /\ \A i \in 1..NrSailVariables :
           f.force_sail[i] = ZeroVector /\ f.moment_sail[i] = ZeroVector

\* the last do_step found the model built and the waiting iterations done,
\* and computed a freestream that is zero at every point
ZeroFreestreamStep ==
    /\ fmu_trace.step.made
    /\ ~fmu_trace.panicked
    /\ fmu_trace.step.before.stormbird_model.is_some
    /\ fmu_trace.step.before.iterations_completed >=
           fmu_trace.step.before.parameters.number_of_iterations_before_building_model
    /\ fmu_trace.step.freestream.is_some
    /\ \A i \in 1..Len(fmu_trace.step.freestream.value) :
           fmu_trace.step.freestream.value[i] = ZeroVector

\* the force, moment and measurement outputs of the FMU
ForceAndMeasurementOutput(f) ==
    <<f.force, f.moment, f.force_superstructure, f.moment_superstructure,
      f.force_sail, f.moment_sail, f.velocity_measurement,
      f.controller_section_models_internal_state, f.angle_of_attack_measurement,
      f.apparent_wind_direction_measurement>>

\* the last do_step found the model built and the waiting iterations done,
\* and no wind environment
NoWindEnvironmentStep ==
    /\ fmu_trace.step.made
    /\ fmu_trace.step.before.stormbird_model.is_some
    /\ fmu_trace.step.before.iterations_completed >=
           fmu_trace.step.before.parameters.number_of_iterations_before_building_model
    /\ ~fmu_trace.step.before.wind_environment.is_some

\* C14: a do_step with the model built and the waiting iterations done, of
\* an FMU without a wind environment, panics, and leaves every force,
\* moment and measurement output as it was before the call.
C14_NoWindEnvironmentPanics ==
    NoWindEnvironmentStep =>
        /\ fmu_trace.panicked
        /\ ~fmu_trace.step.freestream.is_some
        /\ ForceAndMeasurementOutput(fmu) =
               ForceAndMeasurementOutput(fmu_trace.step.before)
        /\ fmu.iterations_completed = fmu_trace.step.before.iterations_completed

\* such a step, made after new inputs were set, that has panicked
C14_Witness ==
    /\ NoWindEnvironmentStep
    /\ fmu_trace.panicked
    /\ fmu_trace.step.before.wind_velocity > 0
    /\ fmu.stormbird_model.is_some

\* C24: when the controller has produced output in a do_step, the line
\* force model handed to the lifting-line step of that do_step holds the
\* wing angles and internal states of that output.
C24_ControllerAppliedBeforeSolve ==
    (/\ fmu_trace.step.made
     /\ fmu_trace.step.handed_over.is_some
     /\ fmu_trace.step.controller_output.is_some) =>
        LET handed == fmu_trace.step.handed_over.value
            output == fmu_trace.step.controller_output.value
        IN  /\ handed.local_wing_angles =
                   [i \in 1..Len(output) |-> output[i].local_wing_angle]
            /\ section_models_internal_state(handed) =
                   section_models_internal_state(
                       set_controller_output(handed, output))

\* the wing angles and the internal states of the section models of a line
\* force model
ControlValues(m) ==
    [local_wing_angles |-> m.local_wing_angles,
     internal_state |-> section_models_internal_state(m)]

\* the wing angles and the internal states the inputs of the FMU hold
InputControlValues ==
    [local_wing_angles |-> fmu_local_wing_angles(fmu, line_force_model),
     internal_state |-> section_models_internal_state(
         set_section_models_internal_state(
             line_force_model, fmu_section_models_internal_state(fmu, line_force_model)))]

\* the step taken is a do_step that has returned
FmuStepCompleted == fmu'.iterations_completed = fmu.iterations_completed + 1

\* do_step finds the model built and the waiting iterations done
FmuStepped ==
    /\ fmu.stormbird_model.is_some
    /\ fmu.iterations_completed >=
           fmu.parameters.number_of_iterations_before_building_model

\* C28: with a controller, a do_step copies the wing-angle and
\* internal-state inputs into the model only if it is stepped with
\* iterations_completed = 0, and otherwise works with the values the model
\* held; without a controller every stepped do_step copies them; and after
\* the copy, if any, the values change only by the output of the controller.
C28_InputsCopiedOnlyAtFirstIteration ==
    [][FmuStepCompleted =>
          LET copies == FmuStepped /\ (~controller.is_some \/ fmu.iterations_completed = 0)
              output == fmu_trace'.step.controller_output
              stepped_with == IF fmu_trace'.step.handed_over.is_some
                              THEN fmu_trace'.step.handed_over.value
                              ELSE line_force_model'
          IN  /\ ControlValues(stepped_with) =
                     IF copies THEN InputControlValues ELSE ControlValues(line_force_model)
              /\ output.is_some => controller.is_some
              /\ ControlValues(line_force_model') =
                     IF output.is_some
                     THEN ControlValues(set_controller_output(stepped_with, output.value))
                     ELSE ControlValues(stepped_with)]_vars

\* a do_step with a controller, after the first iteration, that has solved
\* with wing angles other than those of the inputs
C28_Witness ==
    /\ controller.is_some
    /\ fmu_trace.step.made
    /\ fmu_trace.step.before.iterations_completed > 0
    /\ fmu_trace.step.handed_over.is_some
    /\ fmu_trace.step.handed_over.value.local_wing_angles #
           fmu_local_wing_angles(fmu_trace.step.before, line_force_model)

\* the measurement outputs of the FMU
MeasurementOutputs(f) ==
    [angle_of_attack |-> f.angle_of_attack_measurement,
     velocity |-> f.velocity_measurement,
     apparent_wind_direction |-> f.apparent_wind_direction_measurement,
     internal_state |-> f.controller_section_models_internal_state]

\* the step taken is a do_step that found the freestream zero everywhere
ZeroFreestreamDoStep ==
    /\ fmu_trace' # fmu_trace
    /\ fmu_trace'.step.freestream.is_some
    /\ \A i \in 1..Len(fmu_trace'.step.freestream.value) :
           fmu_trace'.step.freestream.value[i] = ZeroVector

\* C29 as stated: a do_step with zero freestream leaves the measurement
\* outputs and the wing angles and internal states of the model as the
\* previous step left them, resets the force and moment outputs and
\* increases iterations_completed by one.
C29_ZeroFreestreamLeavesModel ==
    [][ZeroFreestreamDoStep =>
          /\ MeasurementOutputs(fmu') = MeasurementOutputs(fmu)
          /\ ControlValues(line_force_model') = ControlValues(line_force_model)
          /\ ZeroForceOutput(fmu')
          /\ fmu'.iterations_completed = fmu.iterations_completed + 1]_vars

\* C29 amended: a do_step with zero freestream leaves the measurement
\* outputs as they were, leaves the wing angles and internal states of the
\* model as they were when a controller is configured and
\* iterations_completed > 0 and sets them to the inputs otherwise, resets
\* the force and moment outputs and increases iterations_completed by one.
C29_ZeroFreestreamKeepsMeasurements ==
    [][ZeroFreestreamDoStep =>
          /\ MeasurementOutputs(fmu') = MeasurementOutputs(fmu)
          /\ ControlValues(line_force_model') =
                 IF ~controller.is_some \/ fmu.iterations_completed = 0
                 THEN InputControlValues
                 ELSE ControlValues(line_force_model)
          /\ ZeroForceOutput(fmu')
          /\ fmu'.iterations_completed = fmu.iterations_completed + 1]_vars

\* a do_step with zero freestream after one that solved: the forces of the
\* sails were not zero before it and are zero after it, and the velocity
\* measured is still there
C29_Witness ==
    /\ ZeroFreestreamStep
    /\ fmu_trace.step.before.iterations_completed > 0
    /\ fmu_trace.step.before.force_sail[1] # ZeroVector
    /\ fmu.force_sail[1] = ZeroVector
    /\ fmu.velocity_measurement[1] # 0
    /\ fmu.iterations_completed = fmu_trace.step.before.iterations_completed + 1

\* C2: a do_step with the model built, the waiting iterations done and a
\* freestream velocity of zero at every point leaves every global, per-sail
\* and superstructure force and moment output zero and has not called the
\* do_step of the lifting-line model.
C2_ZeroFreestreamZeroOutput ==
    ZeroFreestreamStep =>
        /\ ZeroForceOutput(fmu)
        /\ fmu.stormbird_model.value.nr_steps =
               fmu_trace.step.before.stormbird_model.value.nr_steps

\* such a step of an FMU whose model had stepped and whose outputs, of the
\* first sail among them, were not zero
C2_Witness ==
    /\ ZeroFreestreamStep
    /\ fmu_trace.step.before.stormbird_model.value.nr_steps > 0
    /\ fmu_trace.step.before.force # ZeroVector
    /\ fmu_trace.step.before.force_sail[1] # ZeroVector
    /\ ZeroForceOutput(fmu)

----------------------------------------------------------------------------
(* Claims about the actuator line, checked under SpecAL *)

\* the last do_step ran the solver
StepSolved == al_trace.step.made /\ al_trace.step.solver_result.is_some

\* the circulation the last do_step found stored, zeros if it found none
StepPrevious ==
    IF al_trace.step.stored_result.is_some
    THEN al_trace.step.stored_result.value.force_input.circulation_strength
    ELSE [i \in 1..nr_span_lines(line_force_model) |-> 0]

StepCirculation == al_trace.step.solver_result.value.circulation_strength

\* every force and moment of a simulation result is zero
ZeroForces(result) ==
    /\ \A i \in 1..Len(result.sectional_forces.circulatory) :
           /\ result.sectional_forces.circulatory[i] = ZeroVector
           /\ result.sectional_forces.viscous_lift[i] = ZeroVector
           /\ result.sectional_forces.sectional_drag[i] = ZeroVector
    /\ \A w \in 1..Len(result.integrated_forces) :
           /\ result.integrated_forces[w] = ZeroVector
           /\ result.integrated_moments[w] = ZeroVector

\* C3: a do_step at a time >= start_time that finds every sampled velocity
\* zero does not run solve and stores a result whose forces and moments are
\* all zero.
C3_ZeroVelocityBypassesSolver ==
    (/\ al_trace.step.made
     /\ al_trace.step.time >= actuator_line.start_time
     /\ \A i \in 1..Len(al_trace.step.ctrl_points_velocity) :
            al_trace.step.ctrl_points_velocity[i] = ZeroVector)
    => /\ ~al_trace.step.solver_result.is_some
       /\ actuator_line.simulation_result.is_some
       /\ ZeroForces(actuator_line.simulation_result.value)

\* C4: the circulation solve returns is, on every line, the previous one
\* plus damping_factor times the difference of the estimate to it, the
\* previous one being the circulation of the result stored by the last
\* completed step, or zero when there is none; the result the step stores
\* holds the circulation returned.
C4_DampedRelaxation ==
    StepSolved =>
        LET damping_factor == actuator_line.solver_settings.damping_factor IN
        /\ \A i \in 1..nr_span_lines(line_force_model) :
               damping_factor.den * (StepCirculation[i] - StepPrevious[i]) =
               damping_factor.num * (al_trace.step.estimated[i] - StepPrevious[i])
        /\ actuator_line.simulation_result.value.force_input.circulation_strength =
               StepCirculation

\* a damped step away from a stored circulation that is not zero
C4_Witness ==
    /\ StepSolved
    /\ al_trace.step.stored_result.is_some
    /\ actuator_line.solver_settings.damping_factor = Ratio(1, 2)
    /\ \E i \in 1..nr_span_lines(line_force_model) :
           /\ StepPrevious[i] # 0
           /\ al_trace.step.estimated[i] # StepPrevious[i]
           /\ StepCirculation[i] # al_trace.step.estimated[i]

\* the velocity a solve works with, put together from its parts in the
\* order of corrected_ctrl_points_velocity: the sampled velocity of the last
\* do_step, its span component removed where configured, the lifting-line
\* correction of the stored circulation, the sampling factor, the ends
StepCorrectedVelocity ==
    LET m == al_trace.step.line_force_model
        sampled == al_trace.step.ctrl_points_velocity
        settings == actuator_line.sampling_settings
        without_span == IF settings.remove_span_velocity
                        THEN remove_span_velocity(m, sampled) ELSE sampled
        ll_velocity_correction ==
            IF actuator_line.lifting_line_correction.is_some
            THEN velocity_correction(actuator_line.lifting_line_correction.value, m,
                                     sampled, StepPrevious,
                                     al_trace.step.time - actuator_line.start_time)
            ELSE [i \in 1..Len(sampled) |-> ZeroVector]
        scaled == [i \in 1..Len(sampled) |->
                      VecScale(VecAdd(without_span[i], ll_velocity_correction[i]),
                               settings.correction_factor)]
    IN  IF settings.extrapolate_end_velocities
        THEN extrapolate_end_velocities(m, 1, scaled)
        ELSE scaled

\* the circulation the section models give for the angles of attack in the
\* corrected velocity of the last do_step
StepSectionEstimate ==
    LET m == al_trace.step.line_force_model
        velocity == al_trace.step.solver_result.value.output_ctrl_points_velocity
    IN  circulation_strength(m, angles_of_attack(m, velocity), velocity)

\* the factor of the empirical circulation correction on a line, one
\* without a correction
StepFactor(i) ==
    IF actuator_line.empirical_circulation_correction.is_some
    THEN correction_factor(
             actuator_line.empirical_circulation_correction.value,
             al_trace.step.line_force_model.ctrl_point_spanwise_distance_circulation_model[i])
    ELSE Ratio(1, 1)

\* C17: the residual of a solve is the mean absolute difference between
\* the estimate of the section models, before the empirical correction,
\* and the previous circulation.
C17_ResidualFromEstimateAndPrevious ==
    StepSolved =>
        al_trace.step.solver_result.value.residual =
            SumSeq([i \in 1..Len(StepPrevious) |->
                       Abs(StepSectionEstimate[i] - StepPrevious[i])])
                \div Len(StepPrevious)

\* C18: the velocity a solve returns is the sampled velocity corrected
\* from the stored circulation and the elapsed time; the estimate is that
\* of the section models for the angles of attack in the corrected
\* velocity, scaled per line by the empirical factor of the line's
\* spanwise coordinate; the circulation returned is the relaxation of the
\* scaled estimate.
C18_SolveOrder ==
    StepSolved =>
        LET damping_factor == actuator_line.solver_settings.damping_factor
            scaled(i) == (StepSectionEstimate[i] * StepFactor(i).num) \div StepFactor(i).den
        IN  /\ al_trace.step.solver_result.value.output_ctrl_points_velocity =
                   StepCorrectedVelocity
            /\ \A i \in 1..Len(StepPrevious) :
                   /\ al_trace.step.estimated[i] = scaled(i)
                   /\ StepCirculation[i] =
                          StepPrevious[i] +
                          (damping_factor.num * (scaled(i) - StepPrevious[i]))
                              \div damping_factor.den

\* a damped solve with an empirical correction, after its start time and
\* from a stored circulation, on a line whose factor is not one
C18_Witness ==
    /\ StepSolved
    /\ al_trace.step.stored_result.is_some
    /\ actuator_line.empirical_circulation_correction.is_some
    /\ actuator_line.solver_settings.damping_factor = Ratio(1, 2)
    /\ \E i \in 1..Len(StepPrevious) :
           /\ StepFactor(i) # Ratio(1, 1)
           /\ StepPrevious[i] # 0
           /\ StepSectionEstimate[i] # 0
           /\ al_trace.step.estimated[i] # StepSectionEstimate[i]
           /\ StepCirculation[i] # al_trace.step.estimated[i]

\* a solve with a lifting-line correction after its start time, whose
\* corrected velocity is not the sampled one
C18_WitnessCorrection ==
    /\ StepSolved
    /\ actuator_line.lifting_line_correction.is_some
    /\ al_trace.step.time > actuator_line.start_time
    /\ al_trace.step.solver_result.value.output_ctrl_points_velocity #
           al_trace.step.ctrl_points_velocity

\* C5: when the estimate equals the previous circulation on every line, the
\* circulation returned is the previous circulation, whatever the damping
\* factor.
C5_IdempotentAtConvergence ==
    (StepSolved /\ al_trace.step.estimated = StepPrevious)
        => StepCirculation = StepPrevious

\* a converged step of a solver that damps by one half, circulation not zero
C5_Witness ==
    /\ StepSolved
    /\ al_trace.step.estimated = StepPrevious
    /\ actuator_line.solver_settings.damping_factor = Ratio(1, 2)
    /\ \E i \in 1..nr_span_lines(line_force_model) : StepPrevious[i] # 0
    /\ StepCirculation = StepPrevious

\* the call of update_controller number k was made at a time at which both
\* the actuator line and the controller have started
ActiveCall(k) ==
    /\ al_trace.returns[k].time >= actuator_line.start_time
    /\ al_trace.returns[k].time >= controller.value.start_time

\* C7: with time_steps_between_updates > 1, of two consecutive calls that
\* follow an earlier call after the start not both produce output, and a call
\* without output leaves the wing angles and internal states as they were.
C7_OutputOnlyEveryNthCall ==
    (controller.is_some /\ controller.value.time_steps_between_updates > 1) =>
        /\ \A k \in 2..(Len(al_trace.returns) - 1) :
               (ActiveCall(k - 1) /\ ActiveCall(k) /\ ActiveCall(k + 1)) =>
                   ~(al_trace.returns[k].need_update /\ al_trace.returns[k + 1].need_update)
        /\ \A k \in 1..Len(al_trace.returns) :
               ~al_trace.returns[k].need_update => al_trace.returns[k].left_alone

\* C26: a call of update_controller panics exactly when the time has reached
\* start_time, a controller is configured and no do_step at a time >=
\* start_time has stored a result yet; a call before start_time or without a
\* controller returns false and leaves the line force model as it was.
C26_UpdateControllerNeedsStoredResult ==
    /\ actuator_line.simulation_result.is_some <=>
           al_trace.time > actuator_line.start_time
    /\ al_trace.controller_called =>
           LET started == al_trace.time >= actuator_line.start_time
               last == al_trace.returns[Len(al_trace.returns)]
           IN  /\ al_trace.panicked <=>
                      /\ started
                      /\ controller.is_some
                      /\ ~actuator_line.simulation_result.is_some
               /\ (~started \/ ~controller.is_some) =>
                      /\ Len(al_trace.returns) > 0
                      /\ last.time = al_trace.time
                      /\ ~last.need_update
                      /\ last.left_alone

\* a call with a controller that panicked at the start time, after do_step
\* calls that were all made before it
C26_Witness ==
    /\ al_trace.panicked
    /\ al_trace.controller_called
    /\ controller.is_some
    /\ actuator_line.current_iteration > 0
    /\ al_trace.time = actuator_line.start_time
    /\ ~actuator_line.simulation_result.is_some

\* every sectional force to project is zero
NoForcesToProject(al) ==
    \A i \in 1..Len(al.sectional_lift_forces_to_project) :
        /\ al.sectional_lift_forces_to_project[i] = ZeroVector
        /\ al.sectional_drag_forces_to_project[i] = ZeroVector

\* the step taken is a do_step at a time before start_time
StepBeforeStartTime ==
    /\ al_trace'.time = al_trace.time + 1
    /\ al_trace.time < actuator_line.start_time

\* C27: a do_step at a time < start_time changes current_iteration and
\* nothing else of the actuator line or its line force model, the simulation
\* result being None and the forces to project zero before and after it; and
\* current_iteration is the number of do_step calls made since build.
C27_StepBeforeStartTimeOnlyCounts ==
    /\ [](actuator_line.current_iteration = al_trace.time)
    /\ [][StepBeforeStartTime =>
              /\ actuator_line' = [actuator_line EXCEPT
                                      !.current_iteration = @ + 1]
              /\ line_force_model' = line_force_model
              /\ actuator_line.simulation_result = None
              /\ NoForcesToProject(actuator_line)]_vars

\* a do_step has been made before start_time, with velocities sampled that
\* are not zero, and no result is stored
C27_Witness ==
    /\ al_trace.step.made
    /\ al_trace.step.time < actuator_line.start_time
    /\ al_trace.step.ctrl_points_velocity # [i \in 1..nr_span_lines(line_force_model) |-> ZeroVector]
    /\ actuator_line.current_iteration = al_trace.step.time + 1
    /\ actuator_line.simulation_result = None
    /\ NoForcesToProject(actuator_line)

----------------------------------------------------------------------------
(* Claims about the queries of the cells, checked under SpecCells *)

----------------------------------------------------------------------------
(* Claims about the line force model, checked under SpecLFM *)

\* the global data of m, computed from its current pose and wing angles
GlobalDataIsCurrent(m) ==
    LET rbm == m.rigid_body_motion
        ChordLocal(i) ==
            rotate_around_axis(
                m.chord_vectors_local_not_rotated[i],
                m.local_wing_angles[wing_index_from_global(m, i)],
                wing_rotation_data_from_global_index(m, i).axis)
        SpanLine(i) ==
            [start_point |-> transform_point(rbm, m.span_lines_local[i].start_point),
             end_point |-> transform_point(rbm, m.span_lines_local[i].end_point)]
    IN  /\ Len(m.chord_vectors_global) = nr_span_lines(m)
        /\ Len(m.span_lines_global) = nr_span_lines(m)
        /\ Len(m.ctrl_points_global) = nr_span_lines(m)
        /\ Len(m.span_points_global) = nr_span_lines(m) + nr_wings(m)
        /\ \A i \in 1..nr_span_lines(m) :
               /\ m.chord_vectors_global[i] = transform_vector(rbm, ChordLocal(i))
               /\ m.span_lines_global[i] = SpanLine(i)
               /\ m.ctrl_points_global[i] = ctrl_point(SpanLine(i))
        /\ \A wing_index \in 1..nr_wings(m) :
               LET first == m.wing_indices[wing_index].start + 1
                   last == m.wing_indices[wing_index].end
               IN  /\ \A i \in first..last :
                          m.span_points_global[i + wing_index - 1] = SpanLine(i).start_point
                   /\ m.span_points_global[last + wing_index] = SpanLine(last).end_point

\* C25: the line force model a do_step of the FMU hands to the
\* lifting-line step, and the one the do_step leaves, hold global data
\* computed from their pose and wing angles. Checked under SpecFmu.
C25_FmuNeverLeavesStaleData ==
    (fmu_trace.step.made /\ fmu.stormbird_model.is_some) =>
        /\ fmu_trace.step.handed_over.is_some =>
               GlobalDataIsCurrent(fmu_trace.step.handed_over.value)
        /\ GlobalDataIsCurrent(line_force_model)

\* C20: the span points and the control points of the model are those of
\* the span lines it holds, the chord vectors at the span points those of
\* the chord vectors it holds, and the span lines those of its pose, so
\* that an update in the order chord vectors, span lines, span points,
\* control points changes nothing.
C20_DerivedDataInDependencyOrder ==
    LET m == line_force_model IN
    /\ m.span_lines_global = update_global_span_lines(m).span_lines_global
    /\ m.span_points_global = update_global_span_points(m).span_points_global
    /\ m.ctrl_points_global = update_ctrl_points(m).ctrl_points_global
    /\ m.chord_vectors_global_at_span_points =
           span_point_values_from_ctrl_point_values(m, m.chord_vectors_global)
    /\ update_ctrl_points(
           update_global_span_points(
               update_global_span_lines(
                   update_chord_vectors(m)))) = m

\* a model moved away from the pose it was built in, and moved again
C20_Witness ==
    /\ line_force_model.rigid_body_motion.rotation # ZeroVector
    /\ line_force_model.rigid_body_motion.translation # ZeroVector
    /\ line_force_model.rigid_body_motion.velocity_linear # ZeroVector
    /\ line_force_model.span_lines_global #
           BuildLineForceModel(TwoWings).span_lines_global
    /\ line_force_model.ctrl_points_global[1] =
           ctrl_point(line_force_model.span_lines_global[1])
    /\ line_force_model.span_points_global[1] =
           line_force_model.span_lines_global[1].start_point

\* C6: after any sequence of the mutators that change pose or wing angle,
\* the global chord vectors, span lines, span points and control points
\* are those computed from the current pose and local wing angles.
C6_GlobalDataNeverStale == GlobalDataIsCurrent(line_force_model)

\* the model has been rotated, translated and its wings turned
C6_Witness ==
    /\ line_force_model.rigid_body_motion.rotation # ZeroVector
    /\ line_force_model.rigid_body_motion.translation # ZeroVector
    /\ line_force_model.rigid_body_motion.velocity_linear # ZeroVector
    /\ line_force_model.local_wing_angles = <<-2, 4>>
    /\ GlobalDataIsCurrent(line_force_model)

----------------------------------------------------------------------------
(* Claims about the controller, checked under SpecCtrl *)

\* C1: with a maximum change rate r configured, the wing angle (resp. the
\* internal state) returned by get_new_output differs from the input's
\* current value by at most r * time_step.
C1_RateLimitedOutput ==
    (ctrl_call.made /\ ctrl_call.output.is_some) =>
        \A i \in 1..Len(controller.value.set_points) :
            LET sp == controller.value.set_points[i]
                input == ctrl_call.input[i]
                out == ctrl_call.output.value[i]
            IN  /\ sp.max_local_wing_angle_change_rate.is_some =>
                       Abs(out.local_wing_angle - input.current_local_wing_angle)
                           <= sp.max_local_wing_angle_change_rate.value * ctrl_call.time_step
                /\ sp.max_internal_section_state_change_rate.is_some =>
                       Abs(out.section_model_internal_state
                               - input.current_section_model_internal_state)
                           <= sp.max_internal_section_state_change_rate.value * ctrl_call.time_step

C10_NoCrossWingCoupling ==
    (ctrl_call.made /\ ctrl_call.output.is_some) =>
        LET n == Len(controller.value.set_points) IN
        /\ Len(ctrl_call.output.value) = n
        /\ \A other \in ControllerInputs(n) : \A i \in 1..n :
               other[i] = ctrl_call.input[i] =>
                   LET out == update(controller.value, ctrl_call.time, ctrl_call.time_step, other)
                   IN  out.is_some /\ out.value[i] = ctrl_call.output.value[i]

\* A call returned output, and changing wing 2's input alone changes entry
\* 2 of the output while entry 1 stays.
C10_Witness ==
    /\ ctrl_call.made /\ ctrl_call.output.is_some
    /\ \E other \in ControllerInputs(Len(controller.value.set_points)) :
           LET out == update(controller.value, ctrl_call.time, ctrl_call.time_step, other) IN
           /\ other[1] = ctrl_call.input[1]
           /\ other[2] # ctrl_call.input[2]
           /\ out.value[2] # ctrl_call.output.value[2]
           /\ out.value[1] = ctrl_call.output.value[1]

====
